---- MODULE Spec2Model ----
(***************************************************************************)
(* OTTO back end: the conversational orchestrator (core/agent.py), the     *)
(* Firestore conversation store (core/memory_manager.py), the knowledge    *)
(* index query path (core/vector_store.py) and the generation client       *)
(* (core/llm_manager.py), as a state machine.                              *)
(*                                                                         *)
(* Python values are modelled as follows.  None is NoneVal, a missing      *)
(* dict key is Absent.  Conversation ids are the UTC second at which the   *)
(* conversation was created (strftime "%Y-%m-%d_%H-%M-%S"), an integer     *)
(* 1..MaxTime; NoId is a None/empty conversation_id; a stale or garbage id  *)
(* is an id of 1..MaxTime under which the user has no conversation.        *)
(* Distances are scaled by 10 (0.7 is 7).  The store methods' branch for   *)
(* an empty user_id is not taken: every caller passes a user id.           *)
(***************************************************************************)
EXTENDS Integers, Sequences, FiniteSets, TLC

VARIABLES
    now,        \* the UTC clock, in whole seconds (datetime.now(timezone.utc))
    db,         \* FirebaseMemoryManager.db is initialised (TRUE) or None (FALSE)
    client,     \* LLMManager.client is initialised (TRUE) or None (FALSE)
    disk,       \* vector_stores/<name> on disk: whether it exists, its chunks
    stores,     \* VectorStoreManager.stores: name -> "unloaded" | "none" | "loaded"
    store,      \* Firestore: users/<u>/conversations/<id> -> document
    result,     \* what the last process_query call returned
    call,       \* the arguments of the last process_query call
    searchResult, \* what search returned to the last call
    llmCall,    \* the LLMManager call of the last call: request and response
    ncalls,     \* number of process_query calls made
    okCalls,    \* per conversation: the turns of the calls that returned success
    appended,   \* per conversation: the turns appended since it was created
    build,      \* the create_or_load(name, documents_dir) run of the ingestion script
    bstores,    \* VectorStoreManager.stores of the manager that runs the builds
    stale,      \* per manager: whether its cached handle refers to a removed directory
    probe,      \* what the last search of a manager read
    workers,    \* the process_query calls that run concurrently, each with its position
    tool,       \* the last call of a template tool: its inputs and what it returned
    userDocs,   \* the ids of the documents users/<u> that exist in Firestore
    read        \* the last call of a getter of the memory manager

\* the variables of the ingestion
ingestionVars == <<build, bstores, stale, probe>>

vars == <<now, db, client, disk, stores, store, result, call, searchResult,
          llmCall, ncalls, okCalls, appended, build, bstores, stale, probe,
          workers, tool, userDocs, read>>

----------------------------------------------------------------------------
(* Bounds of the model *)

MaxTime == 2
MaxCalls == 1
MaxConversationCalls == 2
MaxBuilds == 2
MaxSeedTurns == 2
MaxToolCalls == 2

(* Program constants; the message limits are scaled down so that eviction   *)
(* and truncation happen within MaxCalls calls (1000 -> 4, 10 -> 2).        *)

max_messages_per_conversation == 4
ContextMaxMessages == 2
n_results == 5
RelevanceThreshold == 7

Users == {"u1"}
\* the user ids of the whole database, in the order users_ref.stream() yields
\* them, and the empty id, which is falsy
UserIds == <<"u1", "u2">>
EmptyId == ""
Messages == {"m1", "m2"}
Collections == {"main"}

NoId == -1
ConvIds == 1..MaxTime
ConvIdArgs == {NoId} \cup ConvIds

NoneVal == "<None>"
Absent == "<absent>"

ApologyLLM == "Desculpe, ocorreu um erro ao processar sua mensagem. Tente novamente."
ApologyInternal == "Desculpe, ocorreu um erro interno. Tente novamente."
FallbackSource == "Base de conhecimento"
GeneralSystemPrompt == "Voce e o assistente educacional OTTO"

----------------------------------------------------------------------------
(* Sequence helpers *)

\* Python's xs[-n:] for n > 0
LastN(xs, n) == IF Len(xs) > n THEN SubSeq(xs, Len(xs) - n + 1, Len(xs)) ELSE xs

Range(xs) == {xs[i] : i \in 1..Len(xs)}

IsPrefix(xs, ys) == Len(xs) <= Len(ys) /\ SubSeq(ys, 1, Len(xs)) = xs

\* all orders in which the elements of a finite set can be listed
ListsOf(S) == {xs \in [1..Cardinality(S) -> S] : Range(xs) = S}

----------------------------------------------------------------------------
(* The conversation store: FirebaseMemoryManager *)

NoDoc == [exists |-> FALSE, conversation_id |-> NoId, title |-> Absent,
          type |-> Absent, created_at |-> 0, updated_at |-> 0,
          user_id |-> Absent, messages |-> <<>>, message_count |-> 0]

\* doc_ref.get(): the document users/<uid>/conversations/<cid>
GetDoc(st, uid, cid) ==
    IF uid \in DOMAIN st /\ cid \in DOMAIN st[uid] THEN st[uid][cid] ELSE NoDoc

EmptyMetadata == [user_id |-> Absent, chat_type |-> Absent, knowledge_used |-> Absent,
                  sources |-> <<>>, detected_intent |-> Absent,
                  intent_confidence |-> Absent]

\* a faulty create: the missing client is not noticed
create_conversation_NoClientCheck(st, uid, conversation_title, conversation_type, t, fault) ==
    [raised |-> FALSE, exc |-> Absent, conversation_id |-> t,
     store |-> [st EXCEPT ![uid][t] =
                   [exists |-> TRUE, conversation_id |-> t, title |-> conversation_title,
                    type |-> conversation_type, created_at |-> t, updated_at |-> t,
                    user_id |-> uid, messages |-> <<>>, message_count |-> 0]]]

\* a faulty create: set() merges into the document and keeps its messages
create_conversation_Merge(st, uid, conversation_title, conversation_type, t, fault) ==
    IF ~db THEN
        [raised |-> TRUE, exc |-> "Firebase nao inicializado. Verifique as credenciais.",
         conversation_id |-> NoId, store |-> st]
    ELSE IF fault THEN
        [raised |-> TRUE, exc |-> "firestore set failed", conversation_id |-> NoId,
         store |-> st]
    ELSE
        [raised |-> FALSE, exc |-> Absent, conversation_id |-> t,
         store |-> [st EXCEPT ![uid][t] =
                       [exists |-> TRUE, conversation_id |-> t,
                        title |-> conversation_title, type |-> conversation_type,
                        created_at |-> t, updated_at |-> t, user_id |-> uid,
                        messages |-> GetDoc(st, uid, t).messages,
                        message_count |-> Len(GetDoc(st, uid, t).messages)]]]

\* create_conversation: the id is the current second; set() replaces the document.
\* Returns [raised, exc, conversation_id, store].
create_conversation(st, uid, conversation_title, conversation_type, t, fault) ==
    IF ~db THEN
        [raised |-> TRUE, exc |-> "Firebase nao inicializado. Verifique as credenciais.",
         conversation_id |-> NoId, store |-> st]
    ELSE IF fault THEN
        [raised |-> TRUE, exc |-> "firestore set failed", conversation_id |-> NoId,
         store |-> st]
    ELSE
        LET conversation_id == t
            title == IF conversation_title = NoneVal THEN "Conversa <data>"
                     ELSE conversation_title
            conversation_data ==
                [exists |-> TRUE, conversation_id |-> conversation_id, title |-> title,
                 type |-> conversation_type, created_at |-> t, updated_at |-> t,
                 user_id |-> uid, messages |-> <<>>, message_count |-> 0]
        IN [raised |-> FALSE, exc |-> Absent, conversation_id |-> conversation_id,
            store |-> [st EXCEPT ![uid][conversation_id] = conversation_data]]

\* what get_conversation_metadata returns for None
NoMetadata == [found |-> FALSE, conversation_id |-> NoId, title |-> Absent,
               type |-> Absent, created_at |-> 0, updated_at |-> 0,
               user_id |-> Absent, message_count |-> 0]

\* _find_user_by_conversation: the first user document, in stream order, under
\* which the conversation exists; None when there is none
find_user_by_conversation(st, cid) ==
    LET owners == {i \in 1..Len(UserIds) :
                      UserIds[i] \in userDocs /\ GetDoc(st, UserIds[i], cid).exists}
    IN IF ~db \/ owners = {} THEN NoneVal
       ELSE UserIds[CHOOSE i \in owners : \A j \in owners : i <= j]

\* the user whose conversation a getter reads: "if not user_id" sends an empty
\* id to the search over all users
ReadUser(st, cid, uid) ==
    IF uid \in {EmptyId, NoneVal} THEN find_user_by_conversation(st, cid) ELSE uid

\* no getter called yet; calls counts the calls made
NoRead == [calls |-> 0, method |-> Absent, conversation_id |-> NoId,
           user_id |-> Absent, found |-> FALSE, messages |-> <<>>]

\* get_conversation_metadata: None when the client is missing, the read fails
\* or the document does not exist; else the metadata (a non-empty dict).
get_conversation_metadata(st, cid, uid, fault) ==
    IF ~db THEN NoMetadata
    ELSE IF fault THEN NoMetadata
    ELSE LET doc == GetDoc(st, ReadUser(st, cid, uid), cid)
         IN IF ~doc.exists THEN NoMetadata
            ELSE [found |-> TRUE, conversation_id |-> doc.conversation_id,
                  title |-> doc.title, type |-> doc.type,
                  created_at |-> doc.created_at, updated_at |-> doc.updated_at,
                  user_id |-> doc.user_id, message_count |-> doc.message_count]

\* a faulty append: the new pair is put before the stored messages
ExtendAndCap_Prepend(messages, user_msg, assistant_msg) ==
    LET extended == <<user_msg, assistant_msg>> \o messages
    IN IF Len(extended) > max_messages_per_conversation
       THEN LastN(extended, max_messages_per_conversation)
       ELSE extended

\* a faulty cap: the oldest messages are kept and the newest dropped
ExtendAndCap_KeepOldest(messages, user_msg, assistant_msg) ==
    LET extended == messages \o <<user_msg, assistant_msg>>
    IN IF Len(extended) > max_messages_per_conversation
       THEN SubSeq(extended, 1, max_messages_per_conversation)
       ELSE extended

\* a faulty cap: one message fewer than the limit is kept
ExtendAndCap_OddCap(messages, user_msg, assistant_msg) ==
    LET extended == messages \o <<user_msg, assistant_msg>>
    IN IF Len(extended) > max_messages_per_conversation
       THEN LastN(extended, max_messages_per_conversation - 1)
       ELSE extended

\* the list after messages.extend([user_msg, assistant_msg]) and the cap
ExtendAndCap(messages, user_msg, assistant_msg) ==
    LET extended == messages \o <<user_msg, assistant_msg>>
    IN IF Len(extended) > max_messages_per_conversation
       THEN LastN(extended, max_messages_per_conversation)
       ELSE extended

\* a faulty append: message_count is the length before the append
add_message_with_intent_StaleCount(st, cid, user_message, assistant_response, detected_intent, intent_confidence, metadata, t, fault) ==
    LET doc == GetDoc(st, metadata.user_id, cid)
    IN IF ~db \/ fault \/ ~doc.exists THEN [ok |-> FALSE, store |-> st]
       ELSE LET user_msg == [timestamp |-> t, role |-> "user",
                             content |-> user_message, metadata |-> EmptyMetadata]
                assistant_msg == [timestamp |-> t, role |-> "assistant",
                                  content |-> assistant_response,
                                  metadata |-> [metadata EXCEPT
                                                   !.detected_intent = detected_intent,
                                                   !.intent_confidence = intent_confidence]]
            IN [ok |-> TRUE,
                store |-> [st EXCEPT ![metadata.user_id][cid] =
                              [doc EXCEPT !.messages = ExtendAndCap(doc.messages, user_msg,
                                                                    assistant_msg),
                                          !.message_count = Len(doc.messages),
                                          !.updated_at = t]]]

\* a faulty append: a failing write leaves the new pair in the document
add_message_with_intent_DirtyFailure(st, cid, user_message, assistant_response, detected_intent, intent_confidence, metadata, t, fault) ==
    LET doc == GetDoc(st, metadata.user_id, cid)
        user_msg == [timestamp |-> t, role |-> "user", content |-> user_message,
                     metadata |-> EmptyMetadata]
        assistant_msg == [timestamp |-> t, role |-> "assistant",
                          content |-> assistant_response, metadata |-> metadata]
        messages == ExtendAndCap(doc.messages, user_msg, assistant_msg)
    IN [ok |-> db /\ ~fault /\ doc.exists,
        store |-> IF db /\ doc.exists
                  THEN [st EXCEPT ![metadata.user_id][cid] =
                           [doc EXCEPT !.messages = messages,
                                       !.message_count = Len(messages),
                                       !.updated_at = t]]
                  ELSE st]

\* add_message_with_intent: [ok, store].  The user id comes from the metadata.
add_message_with_intent(st, cid, user_message, assistant_response, detected_intent, intent_confidence, metadata, t, fault) ==
    IF ~db THEN [ok |-> FALSE, store |-> st]
    ELSE IF fault THEN [ok |-> FALSE, store |-> st]
    ELSE
        LET user_id == metadata.user_id
            doc == GetDoc(st, user_id, cid)
        IN IF ~doc.exists THEN [ok |-> FALSE, store |-> st]
           ELSE
             LET message_metadata ==
                     [metadata EXCEPT !.detected_intent = detected_intent,
                                      !.intent_confidence = intent_confidence]
                 user_msg == [timestamp |-> t, role |-> "user",
                              content |-> user_message, metadata |-> EmptyMetadata]
                 assistant_msg == [timestamp |-> t, role |-> "assistant",
                                   content |-> assistant_response,
                                   metadata |-> message_metadata]
                 messages == ExtendAndCap(doc.messages, user_msg, assistant_msg)
             IN [ok |-> TRUE,
                 store |-> [st EXCEPT ![user_id][cid] =
                               [doc EXCEPT !.messages = messages,
                                           !.message_count = Len(messages),
                                           !.updated_at = t]]]

\* update_conversation_title: [ok, store]; update() of a missing document
\* raises, and the method returns False
update_conversation_title(st, cid, new_title, uid, t, fault) ==
    IF ~db THEN [ok |-> FALSE, store |-> st]
    ELSE IF fault \/ ~GetDoc(st, uid, cid).exists THEN [ok |-> FALSE, store |-> st]
    ELSE [ok |-> TRUE,
          store |-> [st EXCEPT ![uid][cid].title = new_title,
                               ![uid][cid].updated_at = t]]

\* one message as the LLM sees it
FormatForLLM(msg) == [role |-> msg.role, content |-> msg.content]

\* a faulty history read: the limit keeps the oldest messages
get_conversation_history_Oldest(st, cid, uid, max_messages, format_for_llm, fault) ==
    IF ~db THEN <<>>
    ELSE IF fault THEN <<>>
    ELSE LET doc == GetDoc(st, ReadUser(st, cid, uid), cid)
         IN IF ~doc.exists THEN <<>>
            ELSE LET messages ==
                         IF max_messages # 0 /\ Len(doc.messages) > max_messages
                         THEN SubSeq(doc.messages, 1, max_messages)
                         ELSE doc.messages
                 IN IF format_for_llm
                    THEN [i \in 1..Len(messages) |-> FormatForLLM(messages[i])]
                    ELSE messages

\* get_conversation_history; max_messages 0 stands for a falsy limit (None or 0)
get_conversation_history(st, cid, uid, max_messages, format_for_llm, fault) ==
    IF ~db THEN <<>>
    ELSE IF fault THEN <<>>
    ELSE LET doc == GetDoc(st, ReadUser(st, cid, uid), cid)
         IN IF ~doc.exists THEN <<>>
            ELSE LET messages ==
                         IF max_messages # 0 /\ Len(doc.messages) > max_messages
                         THEN LastN(doc.messages, max_messages)
                         ELSE doc.messages
                 IN IF format_for_llm
                    THEN [i \in 1..Len(messages) |-> FormatForLLM(messages[i])]
                    ELSE messages

----------------------------------------------------------------------------
(* The knowledge index: VectorStoreManager *)

\* the chunks a persisted collection can hold; ChunkC carries no source label
\* and each has the id Chroma gave it when it was embedded: <<build, index>>
ChunkA == [id |-> <<0, 1>>, content |-> "k1", metadata |-> [source |-> "s1"]]
ChunkB == [id |-> <<0, 2>>, content |-> "k2", metadata |-> [source |-> "s1"]]
ChunkC == [id |-> <<0, 3>>, content |-> "k3", metadata |-> [source |-> Absent]]
Chunks == {ChunkA, ChunkB, ChunkC}

Distances == {5, 9}

NoCollection == [exists |-> FALSE, chunks |-> {}]

\* what store.similarity_search_with_score can return on a collection: its
\* min(k, size) nearest chunks, each once, by ascending distance
Rankings(chunks, k) ==
    LET n == IF Cardinality(chunks) < k THEN Cardinality(chunks) ELSE k
    IN {r \in [1..n -> [doc : chunks, score : Distances]] :
           /\ \A i, j \in 1..n : i # j => r[i].doc # r[j].doc
           /\ \A i \in 1..n : i < n => r[i].score <= r[i + 1].score}

\* no search made
NoSearch == [success |-> FALSE, error |-> Absent, results |-> <<>>]

\* a faulty load: a handle is cached although the directory is missing
load_store_AlwaysOpen(sts, name, load_fault) == [sts EXCEPT ![name] = "loaded"]

\* _load_store: caches the handle, or None when the directory is missing or
\* Chroma fails to open it
load_store(sts, name, load_fault) ==
    IF disk[name].exists /\ ~load_fault
    THEN [sts EXCEPT ![name] = "loaded"]
    ELSE [sts EXCEPT ![name] = "none"]

\* a faulty get_store: every reference loads from the directory
get_store_Reload(sts, name, load_fault) == load_store(sts, name, load_fault)

\* get_store: loads on the first reference only; returns the cache after it
get_store(sts, name, load_fault) ==
    IF sts[name] = "unloaded" THEN load_store(sts, name, load_fault) ELSE sts

\* search: [stores, result, searches]; ranking is what the similarity search
\* returns, searches the number of similarity searches made
search(sts, collection_name, ranking, load_fault, search_fault) ==
    LET sts2 == get_store(sts, collection_name, load_fault)
    IN IF sts2[collection_name] = "none" THEN
           [stores |-> sts2, searches |-> 0,
            result |-> [success |-> FALSE, error |-> "Collection nao encontrada",
                        results |-> <<>>]]
       ELSE IF search_fault THEN
           [stores |-> sts2, searches |-> 1,
            result |-> [success |-> FALSE, error |-> "chroma error", results |-> <<>>]]
       ELSE
           [stores |-> sts2, searches |-> 1,
            result |-> [success |-> TRUE, error |-> Absent,
                        results |-> [i \in 1..Len(ranking) |->
                                        [content |-> ranking[i].doc.content,
                                         metadata |-> ranking[i].doc.metadata,
                                         distance |-> ranking[i].score]]]]

----------------------------------------------------------------------------
(* The knowledge index: ingestion (VectorStoreManager.create_or_load) *)

FileTypes == {"PDF", "DOCX", "TXT", "CSV", "JSON"}

\* the files of the source directories; DocT is longer than one chunk
DocT == [content |-> "t1", metadata |-> [source |-> "b.txt"]]
DocJ == [content |-> "j1", metadata |-> [source |-> "e.json"]]
DocC1 == [content |-> "c1", metadata |-> [source |-> "c.csv"]]
DocC2 == [content |-> "c2", metadata |-> [source |-> "d.csv"]]

NoFiles == [t \in FileTypes |-> <<>>]

\* documents_dir: per file type, the documents of its files in glob order.
\* A directory without a file of a supported type, one with a text file
\* and a JSON file, one with two CSV files.
SourceDirs == {NoFiles,
               [NoFiles EXCEPT !["TXT"] = <<DocT>>, !["JSON"] = <<DocJ>>],
               [NoFiles EXCEPT !["CSV"] = <<DocC1, DocC2>>]}

\* what can go wrong while a directory is loaded: per file type, the index of
\* the file whose loading raises, 0 when none does
LoaderFaults(dir) ==
    {f \in [FileTypes -> 0..2] : \A t \in FileTypes : f[t] <= Len(dir[t])}

\* what one loader adds to documents.  PDF, DOCX, TXT: loader.load() gives all
\* files or raises.  CSV, JSON: the files are read one by one into documents,
\* so those read before the failing one stay.
LoadedOfType(dir, t, k) ==
    IF k = 0 \/ k > Len(dir[t]) THEN dir[t]
    ELSE IF t \in {"CSV", "JSON"} THEN SubSeq(dir[t], 1, k - 1)
    ELSE <<>>

\* a faulty splitter: where it cuts depends on how many builds ran before
SplitDocument_ByRun(doc) ==
    IF doc = DocT /\ build.gen % 2 = 0
    THEN <<[content |-> "t1#1", metadata |-> doc.metadata],
           [content |-> "t1#2", metadata |-> doc.metadata]>>
    ELSE <<doc>>

\* RecursiveCharacterTextSplitter.split_documents on one document: a document
\* within chunk_size is one chunk, a longer one several with its metadata
SplitDocument(doc) ==
    IF doc = DocT
    THEN <<[content |-> "t1#1", metadata |-> doc.metadata],
           [content |-> "t1#2", metadata |-> doc.metadata]>>
    ELSE <<doc>>

RECURSIVE split_documents(_)
split_documents(docs) ==
    IF docs = <<>> THEN <<>>
    ELSE SplitDocument(Head(docs)) \o split_documents(Tail(docs))

\* a faulty loading: the first loader that raises ends the loading
load_documents_AbortOnFailure(dir, fault) ==
    IF \E t \in FileTypes : fault[t] > 0 /\ fault[t] <= Len(dir[t]) THEN <<>>
    ELSE split_documents(dir["PDF"] \o dir["DOCX"] \o dir["TXT"] \o dir["CSV"]
                         \o dir["JSON"])

\* _load_documents: the loaders in their order, each in its own try, then
\* the split
load_documents(dir, fault) ==
    split_documents(LoadedOfType(dir, "PDF", fault["PDF"])
                    \o LoadedOfType(dir, "DOCX", fault["DOCX"])
                    \o LoadedOfType(dir, "TXT", fault["TXT"])
                    \o LoadedOfType(dir, "CSV", fault["CSV"])
                    \o LoadedOfType(dir, "JSON", fault["JSON"]))

\* the entries Chroma stores for documents embedded by build g
Embed(documents, g) ==
    {[id |-> <<g, i>>, content |-> documents[i].content,
      metadata |-> documents[i].metadata] : i \in 1..Len(documents)}

\* a faulty removal: the old directory stays
rmtree_Keep(d) == d

\* shutil.rmtree(store_dir)
rmtree(d) == NoCollection

\* Chroma.from_documents(documents, persist_directory=store_dir): adds the
\* documents, under new ids, to what the directory holds
from_documents(d, documents, g) ==
    [exists |-> TRUE, chunks |-> d.chunks \cup Embed(documents, g)]

EmptyCorpusError == "Nenhum documento encontrado"
BuildError == "Erro ao criar vector store"

\* a faulty start: the old directory is removed before the documents are looked at
begin_create_RemoveFirst(d, documents) ==
    IF documents = <<>>
    THEN [raised |-> TRUE, error |-> EmptyCorpusError, disk |-> NoCollection]
    ELSE [raised |-> FALSE, error |-> Absent, disk |-> NoCollection]

\* create_or_load with a documents_dir, up to the removal of the old
\* directory: [raised, error, disk]
begin_create(d, documents) ==
    IF documents = <<>>
    THEN [raised |-> TRUE, error |-> EmptyCorpusError, disk |-> d]
    ELSE [raised |-> FALSE, error |-> Absent,
          disk |-> IF d.exists THEN rmtree(d) ELSE d]

\* the managers: the one of the API process (stores) and the one that runs
\* the builds (bstores)
Managers == {"api", "script"}

NotStale == [is |-> FALSE, chunks |-> {}]

NoBuild == [pc |-> "idle", gen |-> 0, source |-> NoFiles,
            fault |-> [t \in FileTypes |-> 0], documents |-> <<>>,
            error |-> Absent, before |-> NoCollection]

\* what the last search of a manager read: the manager, whether it had a
\* handle, whether the read failed, the entries read
NoProbe == [ran |-> FALSE, manager |-> Absent, found |-> FALSE, failed |-> FALSE,
            chunks |-> {}]

\* the answer of the similarity search on the entries a handle reads: the
\* query of the ingestion checks is equally near to all of them
RECURSIVE RankingOf(_)
RankingOf(chunks) ==
    IF chunks = {} THEN <<>>
    ELSE LET first == CHOOSE c \in chunks :
                          \A d \in chunks :
                              \/ c.id[1] < d.id[1]
                              \/ c.id[1] = d.id[1] /\ c.id[2] <= d.id[2]
         IN <<[doc |-> first, score |-> 5]>> \o RankingOf(chunks \ {first})

----------------------------------------------------------------------------
(* The generation client: LLMManager *)

\* what the provider can answer: a text, no text (response.text is None; an
\* empty text takes the same path, no code looks at the content) or an API error
ProviderOutcomes == {[ok |-> TRUE, text |-> "a1"], [ok |-> TRUE, text |-> NoneVal],
                     [ok |-> FALSE, text |-> Absent]}

ProviderErrorText == "Erro da API Gemini: 503 UNAVAILABLE"
NoClientErrorText == "Cliente Gemini nao inicializado."

NoPrompt == [template |-> Absent, knowledge |-> <<>>, question |-> Absent]

NoLLMResponse == [success |-> FALSE, content |-> Absent, error |-> Absent]

\* called: an LLMManager method ran; invoked: the request reached the provider
NoLLMCall == [called |-> FALSE, invoked |-> FALSE, invocations |-> 0,
              method |-> Absent,
              prompt |-> NoPrompt, knowledge_context |-> <<>>, contents |-> <<>>,
              system_instruction |-> Absent, response |-> NoLLMResponse]

\* _format_history_for_gemini: assistant becomes model, other roles are dropped
format_history_for_gemini(history) ==
    LET Conv(m) == [role |-> IF m.role = "assistant" THEN "model" ELSE m.role,
                    text |-> m.content]
        kept == SelectSeq(history, LAMBDA m : m.role \in {"user", "assistant"})
    IN [i \in 1..Len(kept) |-> Conv(kept[i])]

\* the text of a request: the plain message, or the RAG template filled with
\* the knowledge block and the message
PlainPrompt(message) == [template |-> "plain", knowledge |-> <<>>, question |-> message]
RagPrompt(knowledge_context, message) ==
    [template |-> "rag", knowledge |-> knowledge_context, question |-> message]

\* a faulty generation: a failed provider call is made a second time
generate_response_Retry(prompt, context, system_prompt, outcome) ==
    IF ~client THEN
        [response |-> [success |-> FALSE, content |-> Absent,
                       error |-> NoClientErrorText],
         request |-> [NoLLMCall EXCEPT !.called = TRUE]]
    ELSE
        LET request == [NoLLMCall EXCEPT
                            !.called = TRUE, !.invoked = TRUE,
                            !.invocations = IF outcome.ok THEN 1 ELSE 2,
                            !.prompt = prompt,
                            !.contents = format_history_for_gemini(context)]
        IN IF outcome.ok
           THEN [response |-> [success |-> TRUE, content |-> outcome.text,
                               error |-> Absent],
                 request |-> request]
           ELSE [response |-> [success |-> FALSE, content |-> Absent,
                               error |-> ProviderErrorText],
                 request |-> request]

\* generate_response: [response, request]; request is what reaches the provider:
\* contents is the formatted history, followed by the prompt as a user entry
\* (the chosen system instruction is computed but not put in the request);
\* invocations counts the calls of client.models.generate_content
generate_response(prompt, context, system_prompt, outcome) ==
    IF ~client THEN
        [response |-> [success |-> FALSE, content |-> Absent,
                       error |-> NoClientErrorText],
         request |-> [NoLLMCall EXCEPT !.called = TRUE]]
    ELSE
        LET request == [NoLLMCall EXCEPT
                            !.called = TRUE, !.invoked = TRUE, !.invocations = 1,
                            !.prompt = prompt,
                            !.contents = format_history_for_gemini(context)]
        IN IF outcome.ok
           THEN [response |-> [success |-> TRUE, content |-> outcome.text,
                               error |-> Absent],
                 request |-> request]
           ELSE [response |-> [success |-> FALSE, content |-> Absent,
                               error |-> ProviderErrorText],
                 request |-> request]

\* generate_chat_response: the plain chat path
generate_chat_response(prompt, context, chat_type, outcome) ==
    LET g == generate_response(PlainPrompt(prompt), context, GeneralSystemPrompt,
                               outcome)
    IN [response |-> g.response,
        request |-> [g.request EXCEPT !.method = "generate_chat_response"]]

\* generate_with_knowledge: the prompt carries the knowledge block
generate_with_knowledge(prompt, knowledge_context, context, outcome) ==
    LET rag_prompt == RagPrompt(knowledge_context, prompt)
        g == generate_response(rag_prompt, context, GeneralSystemPrompt, outcome)
    IN [response |-> g.response,
        request |-> [g.request EXCEPT !.method = "generate_with_knowledge",
                                      !.knowledge_context = knowledge_context]]

----------------------------------------------------------------------------
(* The template tools: RedacaoTool, PlanoDeAulaTool, AdaptadorTool *)

\* what json.loads makes of a text: "invalid" when it raises JSONDecodeError,
\* else the kind of the value; "object_success_false" is an object that has a
\* key "success" with the value false
JsonValues == {"invalid", "object", "object_success_false", "empty_object", "list",
               "empty_list", "number", "zero", "null"}

\* bool(value) of a parsed value
Truthy(value) == value \in {"object", "object_success_false", "list", "number"}

\* whether ** can expand the value
IsMapping(value) == value \in {"object", "object_success_false", "empty_object"}

\* a model output, by what the parsers look at.  none: response.text is None;
\* braces: re.search(r'\{[\s\S]*\}') finds a span; span: json.loads of that
\* span; direct: json.loads of the text without its ``` fences, stripped
ModelText(none, braces, span, direct) ==
    [none |-> none, braces |-> braces, span |-> span, direct |-> direct]

TextNone == ModelText(TRUE, FALSE, "invalid", "invalid")
TextObject == ModelText(FALSE, TRUE, "object", "object")
TextObjectSuccessFalse ==
    ModelText(FALSE, TRUE, "object_success_false", "object_success_false")
TextEmbedded == ModelText(FALSE, TRUE, "object", "invalid")
TextProse == ModelText(FALSE, FALSE, "invalid", "invalid")
TextBrokenBraces == ModelText(FALSE, TRUE, "invalid", "invalid")
TextList == ModelText(FALSE, FALSE, "invalid", "list")
TextListOfObjects == ModelText(FALSE, TRUE, "object", "list")
TextNumber == ModelText(FALSE, FALSE, "invalid", "number")
TextZero == ModelText(FALSE, FALSE, "invalid", "zero")
TextNull == ModelText(FALSE, FALSE, "invalid", "null")
TextEmptyObject == ModelText(FALSE, TRUE, "empty_object", "empty_object")
TextEmptyList == ModelText(FALSE, FALSE, "invalid", "empty_list")

ModelTexts == {TextNone, TextObject, TextObjectSuccessFalse, TextEmbedded, TextProse, TextBrokenBraces,
               TextList, TextListOfObjects, TextNumber, TextZero, TextNull,
               TextEmptyObject, TextEmptyList}

\* what a parser returns: raised when an exception leaves it, else the value
\* (NoneVal for None)
Parsed(value) == [raised |-> FALSE, exc |-> Absent, value |-> value]
ParseRaised(exc) == [raised |-> TRUE, exc |-> exc, value |-> NoneVal]

\* json.loads inside a try that returns None on JSONDecodeError
LoadsOrNone(value) == IF value = "invalid" THEN Parsed(NoneVal) ELSE Parsed(value)

\* PlanoDeAulaTool._parse_json_response: the brace span when there is one, else
\* the text without fences; None on any exception
parse_json_response_plano(text) ==
    IF text.none THEN Parsed(NoneVal)
    ELSE IF text.braces THEN LoadsOrNone(text.span)
    ELSE LoadsOrNone(text.direct)

\* RedacaoTool._parse_json_response: the text without fences; only
\* JSONDecodeError is caught, None.replace raises AttributeError
parse_json_response_redacao(text) ==
    IF text.none THEN ParseRaised("'NoneType' object has no attribute 'replace'")
    ELSE LoadsOrNone(text.direct)

\* AdaptadorTool._parse_json_response: as the plan tool's, with a bare except
parse_json_response_adaptador(text) ==
    IF text.none THEN Parsed(NoneVal)
    ELSE IF text.braces THEN LoadsOrNone(text.span)
    ELSE LoadsOrNone(text.direct)

\* what a tool returns.  raised: an exception left the tool; payload: the
\* parsed object whose keys are merged into the result
NoToolResult == [returned |-> FALSE, raised |-> FALSE, success |-> FALSE,
                 error |-> Absent, payload |-> Absent, knowledge_used |-> FALSE]

ToolFailure(error) == [NoToolResult EXCEPT !.returned = TRUE, !.error = error]

\* the result with the keys of the parsed object merged in last: a key
\* "success" of the object replaces the tool's
ToolSuccess(value) ==
    [NoToolResult EXCEPT !.returned = TRUE,
                         !.success = (value # "object_success_false"),
                         !.payload = value]

MappingError == "argument after ** must be a mapping"

\* a faulty correction: no try around the body of the tool
corrigir_redacao_NoOuterExcept(knowledge_context, outcome) ==
    LET llm_response == generate_response(PlainPrompt("redacao"), <<>>,
                                          "especialista em redacoes", outcome).response
    IN IF ~llm_response.success THEN ToolFailure(llm_response.error)
       ELSE LET parsed_content == parse_json_response_redacao(llm_response.content)
            IN IF parsed_content.raised
               THEN [NoToolResult EXCEPT !.raised = TRUE]
               ELSE IF ~Truthy(parsed_content.value)
               THEN ToolFailure("Falha ao estruturar a resposta da IA.")
               ELSE IF ~IsMapping(parsed_content.value)
               THEN [NoToolResult EXCEPT !.raised = TRUE]
               ELSE [ToolSuccess(parsed_content.value) EXCEPT
                        !.knowledge_used = knowledge_context]

\* RedacaoTool.corrigir_redacao from the call of the LLM on; knowledge_context
\* tells whether _get_knowledge_context found text in the redacao store
corrigir_redacao(knowledge_context, outcome) ==
    LET llm_response == generate_response(PlainPrompt("redacao"), <<>>,
                                          "especialista em redacoes", outcome).response
    IN IF ~llm_response.success THEN ToolFailure(llm_response.error)
       ELSE LET parsed_content == parse_json_response_redacao(llm_response.content)
            IN IF parsed_content.raised THEN ToolFailure(parsed_content.exc)
               ELSE IF ~Truthy(parsed_content.value)
               THEN ToolFailure("Falha ao estruturar a resposta da IA.")
               ELSE IF ~IsMapping(parsed_content.value) THEN ToolFailure(MappingError)
               ELSE [ToolSuccess(parsed_content.value) EXCEPT
                        !.knowledge_used = knowledge_context]

\* PlanoDeAulaTool.gerar_plano from the call of the LLM on
gerar_plano(outcome) ==
    LET llm_response == generate_response(PlainPrompt("plano"), <<>>,
                                          "coordenador pedagogico", outcome).response
    IN IF ~llm_response.success THEN ToolFailure(llm_response.error)
       ELSE LET parsed_content == parse_json_response_plano(llm_response.content)
            IN IF parsed_content.raised THEN ToolFailure("Erro interno no servidor")
               ELSE IF ~Truthy(parsed_content.value)
               THEN ToolFailure("A IA gerou uma resposta invalida.")
               ELSE IF ~IsMapping(parsed_content.value)
               THEN ToolFailure("Erro interno no servidor")
               ELSE ToolSuccess(parsed_content.value)

\* AdaptadorTool.adaptar_conteudo from the call of the LLM on
adaptar_conteudo(outcome) ==
    LET llm_response == generate_response(PlainPrompt("adaptador"), <<>>, Absent,
                                          outcome).response
    IN IF ~llm_response.success THEN ToolFailure(llm_response.error)
       ELSE LET parsed_content == parse_json_response_adaptador(llm_response.content)
            IN IF parsed_content.raised THEN ToolFailure(parsed_content.exc)
               ELSE IF ~Truthy(parsed_content.value)
               THEN ToolFailure("Falha ao estruturar a adaptacao.")
               ELSE IF ~IsMapping(parsed_content.value) THEN ToolFailure(MappingError)
               ELSE ToolSuccess(parsed_content.value)

ToolNames == {"corrigir_redacao", "gerar_plano", "adaptar_conteudo"}

\* no tool called yet; calls counts the tool calls made
NoToolCall == [calls |-> 0, name |-> Absent, knowledge_context |-> FALSE,
               generated |-> FALSE, text |-> TextNone, result |-> NoToolResult]

----------------------------------------------------------------------------
(* The orchestrator: OTTOAgent *)

\* _resolve_conversation: [raised, exc, conversation_id, is_new, store]
resolve_conversation(st, user_id, conversation_id, t, meta_fault, create_fault) ==
    LET metadata == IF conversation_id # NoId
                    THEN get_conversation_metadata(st, conversation_id, user_id,
                                                   meta_fault)
                    ELSE NoMetadata
    IN IF conversation_id # NoId /\ metadata.found THEN
           [raised |-> FALSE, exc |-> Absent, conversation_id |-> conversation_id,
            is_new |-> FALSE, store |-> st]
       ELSE
           LET c == create_conversation(st, user_id, "Nova Conversa", "chat", t,
                                        create_fault)
           IN [raised |-> c.raised, exc |-> c.exc,
               conversation_id |-> c.conversation_id, is_new |-> TRUE,
               store |-> c.store]

\* _get_conversation_context: the last ContextMaxMessages messages, formatted
get_conversation_context(st, user_id, conversation_id, fault) ==
    LET history == get_conversation_history(st, conversation_id, user_id,
                                            ContextMaxMessages, TRUE, fault)
    IN [history |-> history, message_count |-> Len(history)]

\* the results _handle_chat_geral keeps as relevant: all of them
RelevantResults(results) == results

\* the knowledge block: one marked entry per result, in order
KnowledgeContext(results) ==
    [i \in 1..Len(results) |-> <<"Informacao relevante", results[i].content>>]

\* result["metadata"].get("source", "Base de conhecimento") for each result
SourcesOf(results) ==
    [i \in 1..Len(results) |->
        IF results[i].metadata.source = Absent THEN FallbackSource
        ELSE results[i].metadata.source]

\* a faulty failure branch: the provider's error text becomes the content
FailureResponse_RawError(llm_response) ==
    [content |-> llm_response.error, type |-> "error", knowledge_used |-> FALSE,
     sources |-> <<>>, error |-> llm_response.error]

\* what _handle_chat_geral returns when the provider reports a failure
FailureResponse(llm_response) ==
    [content |-> ApologyLLM, type |-> "error", knowledge_used |-> FALSE,
     sources |-> <<>>, error |-> llm_response.error]

\* _handle_chat_geral after the search: [response, request]
handle_chat_geral(message, context, search_result, outcome) ==
    LET relevant_results ==
            IF search_result.success /\ search_result.results # <<>>
            THEN RelevantResults(search_result.results)
            ELSE <<>>
        knowledge_used == relevant_results # <<>>
        knowledge_context == KnowledgeContext(relevant_results)
        sources == SourcesOf(relevant_results)
        g == IF knowledge_used
             THEN generate_with_knowledge(message, knowledge_context,
                                          context.history, outcome)
             ELSE generate_chat_response(message, context.history, "general",
                                         outcome)
    IN [response |->
            IF g.response.success
            THEN [content |-> g.response.content, type |-> "chat_geral",
                  knowledge_used |-> knowledge_used, sources |-> sources,
                  error |-> Absent]
            ELSE FailureResponse(g.response),
        request |-> [g.request EXCEPT !.response = g.response]]

\* a faulty source list: the labels as collected, without set()
DedupSources_NoSet(sources) == {sources}

\* list(set(sources)): every label once, in the order the set iterates
DedupSources(sources) == ListsOf(Range(sources))

\* what process_query returns; a key the result does not carry is Absent, and
\* has_metadata tells whether the metadata block is there
NoResult == [returned |-> FALSE, success |-> FALSE, content |-> Absent,
             error |-> Absent, raw_error |-> Absent, conversation_id |-> NoId,
             user_id |-> Absent, has_metadata |-> FALSE,
             is_new_conversation |-> FALSE, knowledge_used |-> FALSE,
             sources |-> <<>>, response_type |-> Absent, save_success |-> FALSE]

\* a faulty except branch: the exception leaves process_query
ErrorResult_Propagate(user_id, conversation_id, exc) ==
    [NoResult EXCEPT !.raw_error = exc, !.user_id = user_id,
                     !.conversation_id = conversation_id]

\* the except branch of process_query: "Erro interno: " followed by str(e)
ErrorResult(user_id, conversation_id, exc) ==
    [NoResult EXCEPT !.returned = TRUE, !.error = "Erro interno: <str(e)>",
                     !.raw_error = exc, !.user_id = user_id,
                     !.conversation_id = conversation_id]

\* a faulty result: the content returned is not the one that was stored
SuccessResult_Canned(user_id, conversation_id, is_new, response, sources, save_success) ==
    [NoResult EXCEPT !.returned = TRUE, !.success = TRUE,
                     !.content = "<canned>",
                     !.conversation_id = conversation_id, !.user_id = user_id,
                     !.has_metadata = TRUE, !.is_new_conversation = is_new,
                     !.knowledge_used = response.knowledge_used,
                     !.sources = sources, !.response_type = response.type,
                     !.save_success = save_success]

\* the result of a call that reached step 5
SuccessResult(user_id, conversation_id, is_new, response, sources, save_success) ==
    [NoResult EXCEPT !.returned = TRUE, !.success = TRUE,
                     !.content = response.content,
                     !.conversation_id = conversation_id, !.user_id = user_id,
                     !.has_metadata = TRUE, !.is_new_conversation = is_new,
                     !.knowledge_used = response.knowledge_used,
                     !.sources = sources, !.response_type = response.type,
                     !.save_success = save_success]

\* the metadata process_query hands to add_message_with_intent
TurnMetadata(user_id, response, sources) ==
    [EmptyMetadata EXCEPT !.user_id = user_id, !.chat_type = "general",
                          !.knowledge_used = response.knowledge_used,
                          !.sources = sources]

Turn(message, content) == <<message, content>>

\* the process_query calls in flight, as threads of the API process
Workers == {"w1", "w2"}

\* the message a worker sends
MessageOf(w) == IF w = "w1" THEN "m1" ELSE "m2"

\* a call not made yet.  pc: idle, read (before doc_ref.get of
\* add_message_with_intent), write (before doc_ref.update), done.  requested is
\* the conversation_id argument, existed whether that conversation was stored
\* when the call began, conversation_id the one the call resolved to
IdleWorker == [pc |-> "idle", user_id |-> Absent, conversation_id |-> NoId,
               requested |-> NoId, existed |-> FALSE,
               is_new |-> FALSE, message |-> Absent, content |-> Absent,
               metadata |-> EmptyMetadata, snapshot |-> NoDoc,
               success |-> FALSE, save_success |-> FALSE]

----------------------------------------------------------------------------
(* Initial state and actions *)

DiskChoices == {NoCollection,
                [exists |-> TRUE, chunks |-> {ChunkA, ChunkB}],
                [exists |-> TRUE, chunks |-> {ChunkA, ChunkC}]}

Init ==
    /\ now = 1
    /\ db \in BOOLEAN
    /\ client \in BOOLEAN
    /\ disk \in [Collections -> DiskChoices]
    /\ stores = [c \in Collections |-> "unloaded"]
    /\ store = [u \in Users |-> [c \in ConvIds |-> NoDoc]]
    /\ result = NoResult
    /\ call = [user_id |-> Absent, message |-> Absent, conversation_id |-> NoId,
               existed |-> FALSE, searches |-> 0]
    /\ searchResult = NoSearch
    /\ llmCall = NoLLMCall
    /\ ncalls = 0
    /\ okCalls = [u \in Users |-> [c \in ConvIds |-> <<>>]]
    /\ appended = [u \in Users |-> [c \in ConvIds |-> <<>>]]
    /\ build = NoBuild
    /\ bstores = [c \in Collections |-> "unloaded"]
    /\ stale = [m \in Managers |-> NotStale]
    /\ probe = NoProbe
    /\ workers = [w \in Workers |-> IdleWorker]
    /\ tool = NoToolCall
    /\ userDocs = {}
    /\ read = NoRead

\* the clock advances by one second
Tick ==
    /\ now < MaxTime
    /\ now' = now + 1
    /\ UNCHANGED <<read, userDocs, tool, db, client, disk, stores, store, result, call, searchResult,
                   llmCall, ncalls, okCalls, appended, ingestionVars, workers>>

\* the faults a store operation can meet: none when the client is missing
StoreFaults == IF db THEN BOOLEAN ELSE {FALSE}

\* the arguments of a call, whether the conversation it names was stored
\* when it began, and the number of similarity searches it made
CallRecord(user_id, message, conversation_id, searches) ==
    [user_id |-> user_id, message |-> message, conversation_id |-> conversation_id,
     existed |-> GetDoc(store, user_id, conversation_id).exists,
     searches |-> searches]

\* process_query(user_id, message, conversation_id): the whole call
process_query(user_id, message, conversation_id) ==
    /\ ncalls' = ncalls + 1
    /\ \E meta_fault \in IF conversation_id # NoId THEN StoreFaults ELSE {FALSE} :
       \E create_fault \in
              IF conversation_id # NoId
                 /\ get_conversation_metadata(store, conversation_id, user_id,
                                              meta_fault).found
              THEN {FALSE} ELSE StoreFaults :
         LET r == resolve_conversation(store, user_id, conversation_id, now,
                                       meta_fault, create_fault)
         IN IF r.raised THEN
                /\ result' = ErrorResult(user_id, conversation_id, r.exc)
                /\ call' = CallRecord(user_id, message, conversation_id, 0)
                /\ llmCall' = NoLLMCall
                /\ searchResult' = NoSearch
                /\ UNCHANGED <<store, stores, okCalls, appended>>
            ELSE
              \E hist_fault \in
                     IF GetDoc(r.store, user_id, r.conversation_id).messages # <<>>
                     THEN StoreFaults ELSE {FALSE} :
              \E load_fault \in
                     IF stores["main"] = "unloaded" /\ disk["main"].exists
                     THEN BOOLEAN ELSE {FALSE} :
              \E search_fault \in
                     IF get_store(stores, "main", load_fault)["main"] = "loaded"
                     THEN BOOLEAN ELSE {FALSE} :
              \E ranking \in
                     IF get_store(stores, "main", load_fault)["main"] = "loaded"
                        /\ ~search_fault
                     THEN Rankings(disk["main"].chunks, n_results) ELSE {<<>>} :
              \E outcome \in IF client THEN ProviderOutcomes
                             ELSE {[ok |-> FALSE, text |-> Absent]} :
              \E save_fault \in StoreFaults :
                LET context == get_conversation_context(r.store, user_id,
                                                        r.conversation_id, hist_fault)
                    s == search(stores, "main", ranking, load_fault, search_fault)
                    h == handle_chat_geral(message, context, s.result, outcome)
                IN \E sources \in DedupSources(h.response.sources) :
                     LET save == add_message_with_intent(
                                     r.store, r.conversation_id, message,
                                     h.response.content, "chat_geral", 10,
                                     TurnMetadata(user_id, h.response, sources),
                                     now, save_fault)
                         cid == r.conversation_id
                         afterCreate == IF r.is_new
                                        THEN [appended EXCEPT ![user_id][cid] = <<>>]
                                        ELSE appended
                     IN /\ stores' = s.stores
                        /\ searchResult' = s.result
                        /\ call' = CallRecord(user_id, message, conversation_id,
                                              s.searches)
                        /\ llmCall' = h.request
                        /\ store' = save.store
                        /\ result' = SuccessResult(user_id, cid, r.is_new, h.response,
                                                   sources, save.ok)
                        /\ okCalls' = [okCalls EXCEPT ![user_id][cid] =
                                           Append(@, Turn(message, h.response.content))]
                        /\ appended' =
                               IF save.ok
                               THEN [afterCreate EXCEPT ![user_id][cid] =
                                        Append(@, Turn(message, h.response.content))]
                               ELSE afterCreate
    /\ UNCHANGED <<read, userDocs, tool, now, db, client, disk, ingestionVars, workers>>

\* any caller and any conversation id; no step of the call looks into the
\* message, so one message stands for all
Call ==
    /\ ncalls < MaxCalls
    /\ \E user_id \in Users, conversation_id \in ConvIdArgs :
           process_query(user_id, "m1", conversation_id)

Next == Tick \/ Call

Spec == Init /\ [][Next]_vars

\* The same program while no collection has been ingested yet (search finds
\* nothing and every answer takes the plain chat path): longer call sequences.
InitConversation == Init /\ \A c \in Collections : ~disk[c].exists

ConversationCall ==
    /\ ncalls < MaxConversationCalls
    /\ \E user_id \in Users, message \in Messages, conversation_id \in ConvIdArgs :
           process_query(user_id, message, conversation_id)

NextConversation == Tick \/ ConversationCall

SpecConversation == InitConversation /\ [][NextConversation]_vars

----------------------------------------------------------------------------
(* One call on a conversation that already holds turns: the store starts    *)
(* with conversation 1 of u1 as earlier calls left it.                      *)

\* the user messages of the earlier calls, oldest first
SeedMessages == UNION {[1..n -> Messages] : n \in 0..MaxSeedTurns}

\* the store after the earlier calls: each appended its turn with
\* add_message_with_intent
RECURSIVE SeedStore(_, _)
SeedStore(st, msgs) ==
    IF msgs = <<>> THEN st
    ELSE LET before == SeedStore(st, SubSeq(msgs, 1, Len(msgs) - 1))
         IN add_message_with_intent(before, 1, msgs[Len(msgs)], "a1", "chat_geral", 10,
                                    [EmptyMetadata EXCEPT !.user_id = "u1",
                                                          !.chat_type = "general",
                                                          !.knowledge_used = FALSE],
                                    1, FALSE).store

InitContext ==
    /\ now = 1
    /\ db = TRUE
    /\ client \in BOOLEAN
    /\ disk \in [Collections -> DiskChoices]
    /\ stores = [c \in Collections |-> "unloaded"]
    /\ \E msgs \in SeedMessages :
         /\ store = SeedStore(create_conversation(
                                  [u \in Users |-> [c \in ConvIds |-> NoDoc]],
                                  "u1", "Nova Conversa", "chat", 1, FALSE).store, msgs)
         /\ okCalls = [u \in Users |-> [c \in ConvIds |->
                          IF c = 1 THEN [i \in 1..Len(msgs) |-> Turn(msgs[i], "a1")]
                          ELSE <<>>]]
         /\ appended = okCalls
    /\ result = NoResult
    /\ call = [user_id |-> Absent, message |-> Absent, conversation_id |-> NoId,
               existed |-> FALSE, searches |-> 0]
    /\ searchResult = NoSearch
    /\ llmCall = NoLLMCall
    /\ ncalls = 0
    /\ build = NoBuild
    /\ bstores = [c \in Collections |-> "unloaded"]
    /\ stale = [m \in Managers |-> NotStale]
    /\ probe = NoProbe
    /\ workers = [w \in Workers |-> IdleWorker]
    /\ tool = NoToolCall
    /\ userDocs = {}
    /\ read = NoRead

\* the one call made on the seeded store
ContextCall ==
    /\ ncalls = 0
    /\ \E user_id \in Users, message \in Messages, conversation_id \in ConvIdArgs :
           process_query(user_id, message, conversation_id)

NextContext == Tick \/ ContextCall

SpecContext == InitContext /\ [][NextContext]_vars

----------------------------------------------------------------------------
(* The getters of the memory manager, and callers that send an empty user id *)

\* the user ids a request can carry: ChatIn.user_id is any string
CallerIds == {EmptyId, "u1", "u2"}

\* a faulty read: the getter records the access in the document it read
get_conversation_history_store_Touch(st, cid, uid, max_messages, format_for_llm, fault) ==
    LET owner == ReadUser(st, cid, uid)
    IN IF db /\ ~fault /\ GetDoc(st, owner, cid).exists
       THEN [st EXCEPT ![owner][cid].updated_at = now + 1]
       ELSE st

\* the store after get_conversation_history: the method calls get() only, and
\* the timestamps it rewrites are those of the dict that to_dict() built
get_conversation_history_store(st, cid, uid, max_messages, format_for_llm, fault) ==
    st

\* the store after get_conversation_metadata: the method calls get() only
get_conversation_metadata_store(st, cid, uid, fault) ==
    st

\* the database of a deployment that serves two users.  u2 holds conversation
\* 1 with one turn; u1 may hold a conversation with the same id; the profile
\* documents users/<u> are written by other clients of the database
InitReads ==
    /\ now = 1
    /\ db = TRUE
    /\ client \in BOOLEAN
    /\ disk = [c \in Collections |-> [exists |-> FALSE, chunks |-> {}]]
    /\ stores = [c \in Collections |-> "unloaded"]
    /\ userDocs \in SUBSET {"u1", "u2"}
    /\ \E own \in BOOLEAN :
         LET empty == [u \in CallerIds |-> [c \in ConvIds |-> NoDoc]]
             created2 == create_conversation(empty, "u2", "Nova Conversa", "chat", 1,
                                             FALSE).store
             seeded2 == add_message_with_intent(
                            created2, 1, "m2", "a2", "chat_geral", 10,
                            [EmptyMetadata EXCEPT !.user_id = "u2",
                                                  !.chat_type = "general",
                                                  !.knowledge_used = FALSE],
                            1, FALSE).store
             created1 == create_conversation(seeded2, "u1", "Nova Conversa", "chat", 1,
                                             FALSE).store
             seeded1 == add_message_with_intent(
                            created1, 1, "m1", "a1", "chat_geral", 10,
                            [EmptyMetadata EXCEPT !.user_id = "u1",
                                                  !.chat_type = "general",
                                                  !.knowledge_used = FALSE],
                            1, FALSE).store
         IN /\ store = IF own THEN seeded1 ELSE seeded2
            /\ okCalls = [u \in CallerIds |-> [c \in ConvIds |->
                             IF c = 1 /\ u = "u2" THEN <<Turn("m2", "a2")>>
                             ELSE IF c = 1 /\ u = "u1" /\ own THEN <<Turn("m1", "a1")>>
                             ELSE <<>>]]
            /\ appended = okCalls
    /\ result = NoResult
    /\ call = [user_id |-> Absent, message |-> Absent, conversation_id |-> NoId,
               existed |-> FALSE, searches |-> 0]
    /\ searchResult = NoSearch
    /\ llmCall = NoLLMCall
    /\ ncalls = 0
    /\ build = NoBuild
    /\ bstores = [c \in Collections |-> "unloaded"]
    /\ stale = [m \in Managers |-> NotStale]
    /\ probe = NoProbe
    /\ workers = [w \in Workers |-> IdleWorker]
    /\ tool = NoToolCall
    /\ read = NoRead

\* get_conversation_history(conversation_id, user_id, max_messages,
\* format_for_llm): the one call of a getter made on the database
ReadHistory ==
    /\ read.calls = 0
    /\ \E uid \in CallerIds, cid \in ConvIds, max_messages \in {0, ContextMaxMessages} :
       \E format_for_llm \in BOOLEAN, fault \in StoreFaults :
         LET messages == get_conversation_history(store, cid, uid, max_messages,
                                                  format_for_llm, fault)
         IN /\ read' = [calls |-> read.calls + 1,
                        method |-> "get_conversation_history",
                        conversation_id |-> cid, user_id |-> uid,
                        found |-> messages # <<>>, messages |-> messages]
            /\ store' = get_conversation_history_store(store, cid, uid, max_messages,
                                                        format_for_llm, fault)
    /\ UNCHANGED <<userDocs, tool, now, db, client, disk, stores, result, call,
                   searchResult, llmCall, ncalls, okCalls, appended, ingestionVars,
                   workers>>

\* get_conversation_metadata(conversation_id, user_id), the one call as well
ReadMetadata ==
    /\ read.calls = 0
    /\ \E uid \in CallerIds, cid \in ConvIds, fault \in StoreFaults :
         /\ read' = [calls |-> read.calls + 1,
                     method |-> "get_conversation_metadata",
                     conversation_id |-> cid, user_id |-> uid,
                     found |-> get_conversation_metadata(store, cid, uid, fault).found,
                     messages |-> <<>>]
         /\ store' = get_conversation_metadata_store(store, cid, uid, fault)
    /\ UNCHANGED <<userDocs, tool, now, db, client, disk, stores, result, call,
                   searchResult, llmCall, ncalls, okCalls, appended, ingestionVars,
                   workers>>

\* one process_query call of a caller that sends its id or an empty one
ReadsCall ==
    /\ ncalls = 0
    /\ \E user_id \in {EmptyId, "u1"}, conversation_id \in ConvIdArgs :
           process_query(user_id, "m1", conversation_id)

NextReads == Tick \/ ReadHistory \/ ReadMetadata \/ ReadsCall

SpecReads == InitReads /\ [][NextReads]_vars

----------------------------------------------------------------------------
(* The template tools, called one after the other with any model output *)

InitTools == Init /\ db /\ \A c \in Collections : ~disk[c].exists

\* one call of a tool: the provider fails, or generates the text
ToolCall ==
    /\ tool.calls < MaxToolCalls
    /\ \E name \in ToolNames, text \in ModelTexts :
       \E knowledge_context \in IF name = "corrigir_redacao" THEN BOOLEAN ELSE {FALSE} :
       \E outcome \in IF client THEN {[ok |-> TRUE, text |-> text],
                                      [ok |-> FALSE, text |-> Absent]}
                      ELSE {[ok |-> FALSE, text |-> Absent]} :
         tool' = [calls |-> tool.calls + 1, name |-> name,
                  knowledge_context |-> knowledge_context,
                  generated |-> outcome.ok,
                  text |-> IF outcome.ok THEN text ELSE TextNone,
                  result |-> CASE name = "corrigir_redacao" ->
                                     corrigir_redacao(knowledge_context, outcome)
                               [] name = "gerar_plano" -> gerar_plano(outcome)
                               [] OTHER -> adaptar_conteudo(outcome)]
    /\ UNCHANGED <<read, userDocs, now, db, client, disk, stores, store, result, call, searchResult,
                   llmCall, ncalls, okCalls, appended, ingestionVars, workers>>

NextTools == ToolCall

SpecTools == InitTools /\ [][NextTools]_vars

----------------------------------------------------------------------------
(* Ingestion next to searches.  A build is taken in the steps at which the  *)
(* directory changes: the removal of the old directory, the first part of   *)
(* the writes of Chroma.from_documents, the rest of them.  A handle cached  *)
(* before the removal refers to unlinked files: what a search through it    *)
(* reads is not defined by this code, it may be the removed content, the    *)
(* directory as it is now, or an error.                                     *)

InitIngestion == Init /\ db /\ client

\* create_or_load(name, documents_dir) up to shutil.rmtree
BuildStart ==
    /\ build.pc \in {"idle", "done", "failed"}
    /\ build.gen < MaxBuilds
    /\ \E dir \in SourceDirs : \E fault \in LoaderFaults(dir) :
         LET documents == load_documents(dir, fault)
             b == begin_create(disk["main"], documents)
             removed == disk["main"].exists /\ ~b.disk.exists
         IN /\ build' = [pc |-> IF b.raised THEN "failed" ELSE "removed",
                         gen |-> build.gen + 1, source |-> dir, fault |-> fault,
                         documents |-> documents, error |-> b.error,
                         before |-> disk["main"]]
            /\ disk' = [disk EXCEPT !["main"] = b.disk]
            /\ stale' = [m \in Managers |->
                            IF /\ removed
                               /\ ~stale[m].is
                               /\ (IF m = "api" THEN stores ELSE bstores)["main"] = "loaded"
                            THEN [is |-> TRUE, chunks |-> disk["main"].chunks]
                            ELSE stale[m]]
    /\ UNCHANGED <<read, userDocs, tool, now, db, client, stores, store, result, call, searchResult,
                   llmCall, ncalls, okCalls, appended, bstores, probe, workers>>

\* Chroma.from_documents has created the directory and written a part
BuildWrite ==
    /\ build.pc = "removed"
    /\ \E k \in 0..(Len(build.documents) - 1) :
           disk' = [disk EXCEPT !["main"] =
                       from_documents(@, SubSeq(build.documents, 1, k), build.gen)]
    /\ build' = [build EXCEPT !.pc = "writing"]
    /\ UNCHANGED <<read, userDocs, tool, now, db, client, stores, store, result, call, searchResult,
                   llmCall, ncalls, okCalls, appended, bstores, stale,
                   probe, workers>>

\* Chroma.from_documents returns: everything is written, the handle is cached
BuildFinish ==
    /\ build.pc \in {"removed", "writing"}
    /\ disk' = [disk EXCEPT !["main"] = from_documents(@, build.documents, build.gen)]
    /\ build' = [build EXCEPT !.pc = "done"]
    /\ bstores' = [bstores EXCEPT !["main"] = "loaded"]
    /\ stale' = [stale EXCEPT !["script"] = NotStale]
    /\ UNCHANGED <<read, userDocs, tool, now, db, client, stores, store, result, call, searchResult,
                   llmCall, ncalls, okCalls, appended, probe, workers>>

\* Chroma.from_documents raises: RuntimeError, the directory stays as it is
BuildFail ==
    /\ build.pc \in {"removed", "writing"}
    /\ build' = [build EXCEPT !.pc = "failed", !.error = BuildError]
    /\ UNCHANGED <<read, userDocs, tool, now, db, client, disk, stores, store, result, call, searchResult,
                   llmCall, ncalls, okCalls, appended, bstores, stale,
                   probe, workers>>

\* search("main", query) by manager m
Search(m) ==
    LET sts == IF m = "api" THEN stores ELSE bstores
        loaded == get_store(sts, "main", FALSE)["main"] = "loaded"
        old == sts["main"] = "loaded" /\ stale[m].is
        views == IF ~loaded THEN {{}}
                 ELSE IF old THEN {stale[m].chunks, disk["main"].chunks}
                 ELSE {disk["main"].chunks}
    IN \E view \in views :
       \E search_fault \in IF old THEN BOOLEAN ELSE {FALSE} :
         LET ranking == IF loaded /\ ~search_fault THEN RankingOf(view) ELSE <<>>
             s == search(sts, "main", ranking, FALSE, search_fault)
         IN /\ searchResult' = s.result
            /\ stores' = IF m = "api" THEN s.stores ELSE stores
            /\ bstores' = IF m = "script" THEN s.stores ELSE bstores
            /\ probe' = [ran |-> TRUE, manager |-> m, found |-> loaded,
                         failed |-> search_fault,
                         chunks |-> IF search_fault THEN {} ELSE view]
            /\ UNCHANGED <<read, userDocs, tool, now, db, client, disk, store, result, call, llmCall,
                           ncalls, okCalls, appended, build, stale, workers>>

NextIngestion ==
    \/ BuildStart
    \/ BuildWrite
    \/ BuildFinish
    \/ BuildFail
    \/ \E m \in Managers : Search(m)

SpecIngestion == InitIngestion /\ [][NextIngestion]_vars

----------------------------------------------------------------------------
(* Concurrent calls.  A call is taken in the steps at which it meets the    *)
(* conversation store: everything up to the answer, the read of the         *)
(* document in add_message_with_intent, the update of the document.  One    *)
(* conversation of the user exists and holds no message.                    *)

InitConcurrent ==
    /\ now = 1
    /\ db = TRUE
    /\ client \in BOOLEAN
    /\ disk = [c \in Collections |-> NoCollection]
    /\ stores = [c \in Collections |-> "unloaded"]
    /\ store = create_conversation([u \in Users |-> [c \in ConvIds |-> NoDoc]],
                                   "u1", "Nova Conversa", "chat", 1, FALSE).store
    /\ result = NoResult
    /\ call = [user_id |-> Absent, message |-> Absent, conversation_id |-> NoId,
               existed |-> FALSE, searches |-> 0]
    /\ searchResult = NoSearch
    /\ llmCall = NoLLMCall
    /\ ncalls = 0
    /\ okCalls = [u \in Users |-> [c \in ConvIds |-> <<>>]]
    /\ appended = [u \in Users |-> [c \in ConvIds |-> <<>>]]
    /\ build = NoBuild
    /\ bstores = [c \in Collections |-> "unloaded"]
    /\ stale = [m \in Managers |-> NotStale]
    /\ probe = NoProbe
    /\ workers = [w \in Workers |-> IdleWorker]
    /\ tool = NoToolCall
    /\ userDocs = {}
    /\ read = NoRead

\* process_query up to the call of add_message_with_intent: steps 1 to 3
WorkerBegin(w) ==
    /\ workers[w].pc = "idle"
    /\ \E user_id \in Users, conversation_id \in ConvIdArgs :
       \E meta_fault \in IF conversation_id # NoId THEN StoreFaults ELSE {FALSE} :
       \E create_fault \in
              IF conversation_id # NoId
                 /\ get_conversation_metadata(store, conversation_id, user_id,
                                              meta_fault).found
              THEN {FALSE} ELSE StoreFaults :
         LET r == resolve_conversation(store, user_id, conversation_id, now,
                                       meta_fault, create_fault)
         IN IF r.raised THEN
                /\ workers' = [workers EXCEPT ![w] =
                                   [IdleWorker EXCEPT !.pc = "done",
                                                      !.user_id = user_id,
                                                      !.conversation_id = conversation_id,
                                                      !.requested = conversation_id,
                                                      !.existed = GetDoc(store, user_id, conversation_id).exists,
                                                      !.message = MessageOf(w)]]
                /\ UNCHANGED <<store, stores>>
            ELSE
              \E hist_fault \in
                     IF GetDoc(r.store, user_id, r.conversation_id).messages # <<>>
                     THEN StoreFaults ELSE {FALSE} :
              \E outcome \in IF client THEN ProviderOutcomes
                             ELSE {[ok |-> FALSE, text |-> Absent]} :
                LET context == get_conversation_context(r.store, user_id,
                                                        r.conversation_id, hist_fault)
                    s == search(stores, "main", <<>>, FALSE, FALSE)
                    h == handle_chat_geral(MessageOf(w), context, s.result, outcome)
                IN \E sources \in DedupSources(h.response.sources) :
                     /\ workers' = [workers EXCEPT ![w] =
                            [IdleWorker EXCEPT
                                !.pc = "read", !.user_id = user_id,
                                !.conversation_id = r.conversation_id,
                                !.requested = conversation_id,
                                !.existed = GetDoc(store, user_id, conversation_id).exists,
                                !.is_new = r.is_new, !.message = MessageOf(w),
                                !.content = h.response.content,
                                !.metadata = TurnMetadata(user_id, h.response, sources),
                                !.success = TRUE]]
                     /\ store' = r.store
                     /\ stores' = s.stores
    /\ UNCHANGED <<read, userDocs, tool, now, db, client, disk, result, call, searchResult, llmCall,
                   ncalls, okCalls, appended, ingestionVars>>

\* add_message_with_intent up to doc_ref.get()
WorkerRead(w) ==
    /\ workers[w].pc = "read"
    /\ \E fault \in StoreFaults :
         LET doc == GetDoc(store, workers[w].metadata.user_id,
                           workers[w].conversation_id)
         IN workers' = [workers EXCEPT ![w] =
                IF fault \/ ~db \/ ~doc.exists
                THEN [@ EXCEPT !.pc = "done", !.save_success = FALSE]
                ELSE [@ EXCEPT !.pc = "write", !.snapshot = doc]]
    /\ UNCHANGED <<read, userDocs, tool, now, db, client, disk, stores, store, result, call, searchResult,
                   llmCall, ncalls, okCalls, appended, ingestionVars>>

\* add_message_with_intent from the document read to doc_ref.update(): the
\* append is computed on the document as it was read, and update() sets the
\* three fields of the stored document
WorkerWrite(w) ==
    /\ workers[w].pc = "write"
    /\ \E fault \in StoreFaults :
         LET u == workers[w].metadata.user_id
             cid == workers[w].conversation_id
             asRead == [store EXCEPT ![u][cid] = workers[w].snapshot]
             a == add_message_with_intent(asRead, cid, workers[w].message,
                                          workers[w].content, "chat_geral", 10,
                                          workers[w].metadata, now, fault)
         IN /\ workers' = [workers EXCEPT ![w].pc = "done", ![w].save_success = a.ok]
            /\ store' = IF a.ok
                        THEN [store EXCEPT
                                 ![u][cid].messages = a.store[u][cid].messages,
                                 ![u][cid].message_count = a.store[u][cid].message_count,
                                 ![u][cid].updated_at = a.store[u][cid].updated_at]
                        ELSE store
    /\ UNCHANGED <<read, userDocs, tool, now, db, client, disk, stores, result, call, searchResult,
                   llmCall, ncalls, okCalls, appended, ingestionVars>>

\* the titles a conversation is renamed to
NewTitles == {"Plano de aula"}

\* update_conversation_title called while process_query calls run
UpdateTitle ==
    /\ \E user_id \in Users, conversation_id \in ConvIds, new_title \in NewTitles :
       \E fault \in StoreFaults :
         LET r == update_conversation_title(store, conversation_id, new_title, user_id,
                                            now, fault)
         IN /\ GetDoc(store, user_id, conversation_id).title # new_title
            /\ r.ok
            /\ store' = r.store
    /\ UNCHANGED <<read, userDocs, tool, now, db, client, disk, stores, result, call, searchResult,
                   llmCall, ncalls, okCalls, appended, ingestionVars, workers>>

NextConcurrent ==
    \/ Tick
    \/ UpdateTitle
    \/ \E w \in Workers : WorkerBegin(w)
    \/ \E w \in Workers : WorkerRead(w)
    \/ \E w \in Workers : WorkerWrite(w)

SpecConcurrent == InitConcurrent /\ [][NextConcurrent]_vars

----------------------------------------------------------------------------
(* Claims about conversations, checked under SpecConversation *)

\* the messages a sequence of turns amounts to, as get_conversation_history
\* formats them
Flatten(turns) ==
    [i \in 1..(2 * Len(turns)) |->
        IF i % 2 = 1 THEN [role |-> "user", content |-> turns[(i + 1) \div 2][1]]
        ELSE [role |-> "assistant", content |-> turns[i \div 2][2]]]

\* a step of the model that is a process_query call
IsCall == ncalls' = ncalls + 1

\* C1 as stated: after N process_query calls that returned success for the
\* same (user_id, conversation_id), get_conversation_history (no limit) returns
\* exactly those N turns, in call order.
C1_HistoryIsSuccessfulCalls ==
    \A u \in Users, c \in ConvIds :
        store[u][c].exists =>
            get_conversation_history(store, c, u, 0, TRUE, FALSE)
                = Flatten(okCalls[u][c])

\* C1 amended: the history of a conversation is the turns of the calls that
\* returned its id and whose append reported success, counted since the
\* conversation was created, in call order; only the most recent
\* max_messages_per_conversation messages are kept, and a read with limit m
\* returns the last m of them (all of them when m is 0).
C1_HistoryIsAppendedTurns ==
    \A u \in Users, c \in ConvIds :
        store[u][c].exists =>
            LET kept == LastN(Flatten(appended[u][c]), max_messages_per_conversation)
            IN \A m \in 0..(max_messages_per_conversation + 1) :
                   get_conversation_history(store, c, u, m, TRUE, FALSE)
                       = IF m = 0 THEN kept ELSE LastN(kept, m)

\* two different turns appended to one conversation, both stored
C1_Witness ==
    \E u \in Users, c \in ConvIds :
        /\ Len(appended[u][c]) = 2
        /\ appended[u][c][1] # appended[u][c][2]
        /\ store[u][c].message_count = 4
        /\ okCalls[u][c] = appended[u][c]

\* C2: two calls in sequence for the same user, each with a conversation_id
\* that does not resolve and each returning success, both report is_new and
\* the second never returns the id the first created.
C2_UnknownIdNeverReusesNewId ==
    [][(/\ IsCall
        /\ result.returned /\ result.success
        /\ call.conversation_id # NoId /\ ~call.existed
        /\ call'.user_id = call.user_id
        /\ call'.conversation_id # NoId /\ ~call'.existed
        /\ result'.success)
       => (/\ result.is_new_conversation
           /\ result'.is_new_conversation
           /\ result'.conversation_id # result.conversation_id)]_vars

\* the conversations that exist
Existing(st) == {k \in Users \X ConvIds : st[k[1]][k[2]].exists}

\* C3: a call with a conversation_id that exists for the user returns that id
\* with is_new=false and creates no conversation, every time.
C3_KnownIdIsReused ==
    [][(IsCall /\ call'.existed)
       => (/\ result'.success
           /\ result'.conversation_id = call'.conversation_id
           /\ ~result'.is_new_conversation
           /\ Existing(store') = Existing(store))]_vars

\* C4: a call that creates a conversation removes or overwrites no message of
\* a conversation that existed before it.
C4_CreateLosesNoTurn ==
    [][(IsCall /\ result'.is_new_conversation)
       => \A u \in Users, c \in ConvIds :
              store[u][c].exists =>
                  /\ store'[u][c].exists
                  /\ IsPrefix(store[u][c].messages, store'[u][c].messages)]_vars

----------------------------------------------------------------------------
(* Claims about one answer, checked under Spec *)

\* the results whose distance is below the relevance threshold, in rank order
Passing(results) == SelectSeq(results, LAMBDA r : r.distance < RelevanceThreshold)

\* the last call got an answer from LLMManager that reports a failure
GenerationFailed == result.returned /\ llmCall.called /\ ~llmCall.response.success

\* C5: when the search returns results and none is below the threshold, the
\* call reports knowledge_used=false and takes the plain chat path.
C5_NoPassingChunkMeansPlainChat ==
    (/\ result.returned
     /\ searchResult.success
     /\ searchResult.results # <<>>
     /\ Passing(searchResult.results) = <<>>)
    => (/\ result.success
        /\ ~result.knowledge_used
        /\ llmCall.method = "generate_chat_response")

\* C6: in the result of a call whose generation succeeded, knowledge_used is
\* true exactly when a retrieved chunk passes the threshold, and the knowledge
\* block is then built from the passing chunks, in rank order.
C6_KnowledgeUsedIffChunkPasses ==
    (result.returned /\ result.success /\ llmCall.response.success)
    => (/\ result.knowledge_used
            <=> (searchResult.success /\ Passing(searchResult.results) # <<>>)
        /\ result.knowledge_used
            => (/\ llmCall.method = "generate_with_knowledge"
                /\ llmCall.knowledge_context
                       = KnowledgeContext(Passing(searchResult.results))))

NoDuplicates(xs) == \A i, j \in 1..Len(xs) : i # j => xs[i] # xs[j]

\* the label a chunk contributes
LabelOf(r) == IF r.metadata.source = Absent THEN FallbackSource ELSE r.metadata.source

\* C7: the sources of the result and of every persisted turn list each label
\* at most once; when knowledge was used they are the labels of the chunks
\* used, the fallback label standing for a chunk without one; the persisted
\* turn carries the list of the result.
C7_SourcesListedOnce ==
    /\ NoDuplicates(result.sources)
    /\ \A u \in Users, c \in ConvIds :
           \A i \in 1..Len(store[u][c].messages) :
               NoDuplicates(store[u][c].messages[i].metadata.sources)
    /\ (result.returned /\ result.knowledge_used)
           => Range(result.sources)
                  = {LabelOf(r) : r \in Range(searchResult.results)}
    /\ (result.returned /\ result.save_success)
           => LET messages == store[result.user_id][result.conversation_id].messages
              IN messages[Len(messages)].metadata.sources = result.sources

\* two chunks with the same label were used, and the turn was persisted
C7_Witness ==
    /\ result.returned /\ result.knowledge_used /\ result.save_success
    /\ Len(searchResult.results) = 2
    /\ searchResult.results[1].metadata.source = "s1"
    /\ searchResult.results[2].metadata.source = "s1"
    /\ result.sources = <<"s1">>

\* C8: when the generation reports a failure, the content returned is the
\* fixed apology and not the provider's error text.
C8_FailureContentIsApology ==
    GenerationFailed
    => (/\ result.content = ApologyLLM
        /\ result.content # llmCall.response.error)

\* the provider was reached and failed, and the call returned the apology
C8_Witness ==
    /\ GenerationFailed
    /\ llmCall.invoked
    /\ llmCall.response.error = ProviderErrorText
    /\ result.content = ApologyLLM

\* C9: no persisted turn has an empty or undefined assistant content.
C9_NoEmptyContentPersisted ==
    \A u \in Users, c \in ConvIds :
        \A i \in 1..Len(store[u][c].messages) :
            store[u][c].messages[i].role = "assistant"
                => store[u][c].messages[i].content \notin {NoneVal, "", Absent}

\* C10: when the generation reports a failure, the result is a structured
\* failure: success=false with an error string.
C10_GenerationFailureIsHardFailure ==
    GenerationFailed => (~result.success /\ result.error # Absent)

----------------------------------------------------------------------------
(* Claims about failures of the collaborators *)

\* C11: when the history write of a call fails after the generation
\* succeeded, the call still returns success=true with the generated content
\* and the resolved conversation id, and the write leaves the conversation as
\* it was: as stored before a call on a known id, empty after a call that
\* created it.
C11_FailedWriteIsSwallowed ==
    [][(/\ IsCall
        /\ result'.returned
        /\ llmCall'.response.success
        /\ ~result'.save_success)
       => (/\ result'.success
           /\ result'.content = llmCall'.response.content
           /\ result'.conversation_id \in ConvIds
           /\ (call'.existed /\ ~result'.is_new_conversation)
                  => /\ result'.conversation_id = call'.conversation_id
                     /\ store' = store
           /\ result'.is_new_conversation
                  => /\ result'.conversation_id = now
                     /\ store'[call'.user_id][now].messages = <<>>
                     /\ \A u \in Users, c \in ConvIds :
                            <<u, c>> # <<call'.user_id, now>>
                                => store'[u][c] = store[u][c])]_vars

\* a generated answer was returned although its write on a conversation that
\* holds an earlier turn failed
C11_Witness ==
    /\ result.returned /\ result.success /\ ~result.save_success
    /\ llmCall.response.success /\ result.content = "a1"
    /\ call.existed /\ ~result.is_new_conversation
    /\ store[result.user_id][result.conversation_id].message_count = 2

\* C12: every call returns a structured result with a success flag, an error
\* string when the flag is false, whatever fails in the conversation store,
\* the knowledge index and the generation provider.
C12_AlwaysStructuredResult ==
    [][IsCall => (/\ result'.returned
                  /\ result'.success \in BOOLEAN
                  /\ ~result'.success => result'.error # Absent)]_vars

\* one call in which the index search, the provider and the history write
\* all failed
C12_Witness ==
    /\ result.returned
    /\ searchResult.error = "chroma error"
    /\ llmCall.invoked /\ ~llmCall.response.success
    /\ ~result.save_success

\* search was called by the last call
SearchRan == searchResult # NoSearch

\* C13: without a conversation store client a call returns a structured
\* failure carrying the caller's conversation id, calls no generation and
\* stores nothing.
C13_NoStoreClientIsFailure ==
    (~db /\ result.returned)
    => (/\ ~result.success
        /\ result.error # Absent
        /\ result.conversation_id = call.conversation_id
        /\ ~SearchRan
        /\ ~llmCall.called
        /\ \A u \in Users, c \in ConvIds : store[u][c] = NoDoc)

\* a call with a conversation id was answered without a store client
C13_Witness ==
    /\ ~db /\ result.returned /\ ~result.success
    /\ call.conversation_id \in ConvIds
    /\ result.conversation_id = call.conversation_id

\* C14: a search on a collection with no persisted data gives a not-found
\* result, and the call is then answered on the plain chat path with
\* knowledge_used=false and success=true.
C14_AbsentCollectionIsNotFound ==
    (SearchRan /\ ~disk["main"].exists)
    => (/\ ~searchResult.success
        /\ searchResult.error = "Collection nao encontrada"
        /\ searchResult.results = <<>>
        /\ result.returned /\ result.success
        /\ ~result.knowledge_used
        /\ llmCall.method = "generate_chat_response")

\* a call was answered by the provider while the collection is absent
C14_Witness ==
    /\ SearchRan /\ ~disk["main"].exists
    /\ stores["main"] = "none"
    /\ result.success /\ llmCall.invoked /\ llmCall.response.success

----------------------------------------------------------------------------
(* Claims about ingestion, checked under SpecIngestion *)

\* a step that is a search of a manager
IsSearch == probe'.ran /\ build' = build /\ disk' = disk

\* the collection a finished build leaves
PostBuild == [exists |-> TRUE, chunks |-> Embed(build.documents, build.gen)]

\* C15: a search that runs while collection main is rebuilt reads either the
\* whole collection as it was before the rebuild or the whole rebuilt one.
C15_SearchSeesOldOrNew ==
    [][(IsSearch /\ build.pc \in {"removed", "writing"})
       => (/\ ~probe'.failed
           /\ [exists |-> probe'.found, chunks |-> probe'.chunks]
                  \in {build.before, PostBuild})]_vars

\* C16: a search that runs after a rebuild of main has completed returns
\* entries of the new generation only.
C16_SearchAfterRebuildSeesNew ==
    [][(IsSearch /\ build.pc = "done")
       => \A c \in probe'.chunks : c.id[1] = build.gen]_vars

\* C17: a build removes what the collection held before it writes: nothing
\* is there after the removal, only entries of this build while it writes,
\* and exactly the entries of its documents once it is done, whatever the
\* directory held before.
C17_RebuildReplaces ==
    /\ build.pc = "removed" => ~disk["main"].exists
    /\ build.pc = "writing" => disk["main"].chunks \subseteq PostBuild.chunks
    /\ build.pc = "done" => disk["main"] = PostBuild

\* a second build from the source of the first, complete, build is done
C17_Witness ==
    /\ build.pc = "done" /\ build.gen = 2
    /\ build.before = [exists |-> TRUE, chunks |-> Embed(build.documents, 1)]
    /\ Len(build.documents) = 3
    /\ Cardinality(disk["main"].chunks) = 3

\* C18: a build whose directory yields no document fails with the empty
\* corpus error and changes neither the directory of the collection nor a
\* cached handle.
C18_EmptyCorpusFails ==
    [][(build'.gen = build.gen + 1 /\ build'.documents = <<>>)
       => (/\ build'.pc = "failed"
           /\ build'.error = EmptyCorpusError
           /\ disk' = disk
           /\ bstores' = bstores /\ stores' = stores
           /\ stale' = stale)]_vars

\* a build without documents failed next to a built collection and its handle
C18_Witness ==
    /\ build.pc = "failed" /\ build.error = EmptyCorpusError
    /\ build.gen = 2
    /\ disk["main"].exists /\ disk["main"] = build.before
    /\ disk["main"].chunks = Embed(<<DocJ>>, 1)
    /\ bstores["main"] = "loaded" /\ ~stale["script"].is

\* the chunks of the files of type t of the directory being built
ChunksOfType(t) == Range(split_documents(build.source[t]))

\* C19: the documents of every file type whose loader did not fail are
\* chunked and written by the build, whichever other loader failed; the
\* build does not stop for an empty corpus when one of them has a file.
C19_LoaderFailureIsIsolated ==
    \A t \in FileTypes :
        build.fault[t] = 0
        => (/\ ChunksOfType(t) \subseteq Range(build.documents)
            /\ build.source[t] # <<>> => build.error # EmptyCorpusError
            /\ build.pc = "done"
                   => \A d \in ChunksOfType(t) :
                          \E c \in disk["main"].chunks :
                              c.content = d.content /\ c.metadata = d.metadata)

\* the text loader failed and the build wrote the JSON document
C19_Witness ==
    /\ build.pc = "done"
    /\ build.fault["TXT"] = 1 /\ build.fault["JSON"] = 0
    /\ disk["main"].chunks = Embed(<<DocJ>>, build.gen)

----------------------------------------------------------------------------
(* Claims about concurrent calls, checked under SpecConcurrent *)

\* the turn of worker w is in the messages: its user message followed by its
\* assistant response
HasTurn(messages, w) ==
    \E i \in 1..(Len(messages) - 1) :
        /\ messages[i].role = "user"
        /\ messages[i].content = workers[w].message
        /\ messages[i + 1].role = "assistant"
        /\ messages[i + 1].content = workers[w].content

\* C20: when two concurrent calls on the same existing conversation have both
\* ended with a successful append, the conversation holds both turns.
C20_NoLostAppend ==
    \A v, w \in Workers :
        (/\ v # w
         /\ workers[v].pc = "done" /\ workers[w].pc = "done"
         /\ workers[v].save_success /\ workers[w].save_success
         /\ ~workers[v].is_new /\ ~workers[w].is_new
         /\ workers[v].user_id = workers[w].user_id
         /\ workers[v].conversation_id = workers[w].conversation_id)
        => LET messages == store[workers[v].user_id][workers[v].conversation_id].messages
           IN HasTurn(messages, v) /\ HasTurn(messages, w)

----------------------------------------------------------------------------
(* Calls on different conversations *)

\* the stored conversations other than conversation cid of user uid
OtherConversations(uid, cid) ==
    {p \in Users \X ConvIds : p # <<uid, cid>> /\ store[p[1]][p[2]].exists}

\* worker w takes a step
StepOf(w) == workers'[w] # workers[w]

\* no other call has resolved to the conversation of worker w
AloneOnConversation(w) ==
    \A v \in Workers \ {w} :
        \/ workers[v].pc = "idle"
        \/ <<workers[v].user_id, workers[v].conversation_id>>
               # <<workers'[w].user_id, workers'[w].conversation_id>>

\* the conversation a step of worker w works on: the one the call names while
\* it resolves the conversation, the one it resolved to afterwards
TargetOf(w) ==
    IF workers[w].pc = "idle" THEN workers'[w].requested ELSE workers[w].conversation_id

\* C21: calls that run concurrently on different (user, conversation) pairs do
\* not interfere.  A step of a call made on a stored conversation leaves every
\* other stored conversation as it was, and when no other call works on that
\* conversation, a successful append adds the call's turn to the list as it is
\* stored at that moment.
C21_OtherConversationsUntouched ==
    [][\A w \in Workers :
          (StepOf(w) /\ workers'[w].existed)
          => /\ \A p \in OtherConversations(workers'[w].user_id, TargetOf(w)) :
                    store'[p[1]][p[2]] = store[p[1]][p[2]]
             /\ (workers[w].pc = "write" /\ workers'[w].save_success
                    /\ AloneOnConversation(w))
                => LET u == workers[w].user_id
                       cid == workers[w].conversation_id
                   IN store'[u][cid].messages
                        = add_message_with_intent(store, cid, workers[w].message,
                                                  workers[w].content, "chat_geral",
                                                  10, workers[w].metadata, now,
                                                  FALSE).store[u][cid].messages]_vars

----------------------------------------------------------------------------
(* The history handed to the provider *)

\* the messages of the conversation a call resolved to, as stored before it
StoredBefore ==
    IF result'.is_new_conversation THEN <<>>
    ELSE GetDoc(store, result'.user_id, result'.conversation_id).messages

\* a call that reached the provider
ProviderCalled == IsCall /\ result'.returned /\ result'.success /\ llmCall'.invoked

\* the entries of a history as the provider receives them
AsRequest(messages) ==
    format_history_for_gemini([i \in 1..Len(messages) |-> FormatForLLM(messages[i])])

\* C22 as stated: the history handed to the provider is the up to
\* ContextMaxMessages most recent turns (a turn being a user message with its
\* assistant response, two messages), oldest first.
C22_HistoryIsLastTurns ==
    [][ProviderCalled
       => llmCall'.contents = AsRequest(LastN(StoredBefore, 2 * ContextMaxMessages))]_vars

\* C22 amended: the history handed to the provider is the up to
\* ContextMaxMessages most recent messages (half as many turns), oldest first,
\* alternating user and assistant entries starting with a user entry; it is
\* empty when the history read fails.
C22_HistoryIsLastMessages ==
    [][ProviderCalled
       => /\ \/ llmCall'.contents = AsRequest(LastN(StoredBefore, ContextMaxMessages))
             \/ llmCall'.contents = <<>>
          /\ \A i \in 1..Len(llmCall'.contents) :
                llmCall'.contents[i].role = IF i % 2 = 1 THEN "user" ELSE "model"]_vars

\* a call reached the provider with a history cut to the limit: the
\* conversation held two turns and the call's own turn was appended
C22_Witness ==
    /\ llmCall.invoked /\ result.returned /\ ~result.is_new_conversation
    /\ Len(llmCall.contents) = ContextMaxMessages
    /\ result.conversation_id # NoId
    /\ Len(appended[result.user_id][result.conversation_id]) > ContextMaxMessages

----------------------------------------------------------------------------
(* No retries *)

\* C23: within one process_query call the generation provider is invoked at
\* most once and the knowledge index is searched at most once, whether or not
\* they fail.
C23_NoRetries == llmCall.invocations <= 1 /\ call.searches <= 1

\* a call whose search failed and whose provider call failed, each made once
C23_Witness ==
    /\ result.returned
    /\ call.searches = 1 /\ ~searchResult.success
    /\ llmCall.invocations = 1 /\ ~llmCall.response.success

----------------------------------------------------------------------------
(* What a result discloses *)

\* the texts of the provider's own errors
ProviderErrorTexts == {ProviderErrorText, NoClientErrorText}

\* C24: in every result process_query returns, the content and error fields
\* carry a generic message: the error text embeds no exception text (raw_error
\* is the str(e) that the error text is built from) and the content is not an
\* error text of the provider.
C24_NoRawErrorInResult ==
    result.returned
    => /\ result.raw_error = Absent
       /\ result.content \notin ProviderErrorTexts

----------------------------------------------------------------------------
(* The request sent to the provider *)

\* C25: every call of the provider is given the prompt, the conversation
\* history and the selected system instruction (the supplied one, else the
\* general one; the agent's two paths both select the general one).
C25_RequestCarriesSystemInstruction ==
    llmCall.invoked
    => /\ llmCall.prompt # NoPrompt
       /\ llmCall.system_instruction = GeneralSystemPrompt

----------------------------------------------------------------------------
(* The template tools and unusable model output *)

\* the value the parser of the tool called last obtains from the text
ObtainedBy(name, text) ==
    CASE name = "corrigir_redacao" -> parse_json_response_redacao(text)
      [] name = "gerar_plano" -> parse_json_response_plano(text)
      [] OTHER -> parse_json_response_adaptador(text)

\* the model generated a text from which the tool's parser got no object
NoObjectObtained ==
    /\ tool.calls > 0 /\ tool.generated
    /\ LET p == ObtainedBy(tool.name, tool.text)
       IN p.raised \/ ~IsMapping(p.value)

\* C26: for each template tool, when no extraction strategy obtains a
\* structured object from the model output, the tool returns success=false
\* with an error message, no part of a structure, and no exception leaves it.
C26_NoObjectIsFailure ==
    NoObjectObtained
    => /\ tool.result.returned /\ ~tool.result.raised
       /\ ~tool.result.success
       /\ tool.result.error # Absent
       /\ tool.result.payload = Absent

\* the correction tool got None as the model's text and returned a failure
C26_Witness ==
    /\ NoObjectObtained
    /\ tool.name = "corrigir_redacao" /\ tool.text = TextNone
    /\ tool.result.returned /\ ~tool.result.success

----------------------------------------------------------------------------
(* Chunking on repeated runs *)

\* the documents the loaders of _load_documents gather before the split
LoadedDocuments(dir, fault) ==
    LoadedOfType(dir, "PDF", fault["PDF"]) \o LoadedOfType(dir, "DOCX", fault["DOCX"])
    \o LoadedOfType(dir, "TXT", fault["TXT"]) \o LoadedOfType(dir, "CSV", fault["CSV"])
    \o LoadedOfType(dir, "JSON", fault["JSON"])

\* a step that starts a build after an earlier one
IsRebuild == build.gen >= 1 /\ build'.gen = build.gen + 1

----------------------------------------------------------------------------
(* The message counter *)

\* C28: in every reachable state of every stored conversation, message_count
\* equals the length of the stored message list, whatever the interleaving
\* of create_conversation, add_message_with_intent and
\* update_conversation_title.
C28_CountIsLength ==
    \A u \in Users, c \in ConvIds :
        store[u][c].exists => store[u][c].message_count = Len(store[u][c].messages)

\* two concurrent appends to a renamed conversation both succeeded
C28_Witness ==
    \E u \in Users, c \in ConvIds :
        /\ store[u][c].exists
        /\ store[u][c].title \in NewTitles
        /\ store[u][c].messages # <<>>
        /\ \A w \in Workers :
              /\ workers[w].pc = "done" /\ workers[w].save_success
              /\ workers[w].user_id = u /\ workers[w].conversation_id = c

----------------------------------------------------------------------------
(* What an append does to the stored list *)

\* a call whose add_message_with_intent returned True
Appended == IsCall /\ result'.returned /\ result'.success /\ result'.save_success

\* the messages of the conversation of the call, after it
StoredAfter == store'[result'.user_id][result'.conversation_id].messages

\* role and content of the two messages the call appends
NewPair == <<[role |-> "user", content |-> call'.message],
             [role |-> "assistant", content |-> result'.content]>>

\* the number of messages the append evicted
Evicted == Len(StoredBefore) + 2 - Len(StoredAfter)

\* C29: a successful add_message_with_intent only appends.  The two new
\* messages, user then assistant, are at the end of the list; what precedes
\* them is the list before the call without the messages evicted from its
\* head, unchanged and in order; with no eviction the list before the call
\* is a prefix of the list after it.
C29_AppendOnly ==
    [][Appended
       => /\ Len(StoredAfter) >= 2
          /\ Evicted \in 0..Len(StoredBefore)
          /\ SubSeq(StoredAfter, 1, Len(StoredAfter) - 2)
                = SubSeq(StoredBefore, Evicted + 1, Len(StoredBefore))
          /\ Evicted = 0 => IsPrefix(StoredBefore, StoredAfter)
          /\ <<FormatForLLM(StoredAfter[Len(StoredAfter) - 1]),
                FormatForLLM(StoredAfter[Len(StoredAfter)])>> = NewPair]_vars

\* a turn was appended, with no eviction, to a conversation that held one
C29_Witness ==
    /\ result.returned /\ result.save_success /\ ~result.is_new_conversation
    /\ result.conversation_id # NoId
    /\ Len(appended[result.user_id][result.conversation_id]) = 2
    /\ Len(store[result.user_id][result.conversation_id].messages) = 4

\* C30: after any add_message_with_intent a conversation holds at most
\* max_messages_per_conversation messages, and they are the most recent ones
\* of the list before the call followed by the new pair, in their order: the
\* messages dropped are the oldest.
C30_CapKeepsMostRecent ==
    [][/\ \A u \in Users, c \in ConvIds :
             Len(store'[u][c].messages) <= max_messages_per_conversation
       /\ Appended
          => [i \in 1..Len(StoredAfter) |-> FormatForLLM(StoredAfter[i])]
               = LastN([i \in 1..Len(StoredBefore) |-> FormatForLLM(StoredBefore[i])]
                       \o NewPair, max_messages_per_conversation)]_vars

\* an append went over the cap: the conversation had been given three turns
\* and holds max_messages_per_conversation messages
C30_Witness ==
    /\ result.returned /\ result.save_success /\ ~result.is_new_conversation
    /\ result.conversation_id # NoId
    /\ Len(appended[result.user_id][result.conversation_id]) * 2
         > max_messages_per_conversation
    /\ Len(store[result.user_id][result.conversation_id].messages)
         = max_messages_per_conversation

----------------------------------------------------------------------------
(* The cached handle of a collection *)

\* C32: a manager attempts the load of a collection on the first reference
\* only.  Once a manager holds an outcome for main (a handle, or None for an
\* absent or unreadable directory), no later get_store or search replaces it,
\* whatever the directory has become, and a search on a cached None finds no
\* collection; only a build that completes sets the handle of its manager.
C32_LoadedOnceThenCached ==
    [][/\ stores["main"] # "unloaded" => stores'["main"] = stores["main"]
       /\ (bstores["main"] # "unloaded" /\ ~(build.pc # "done" /\ build'.pc = "done"))
             => bstores'["main"] = bstores["main"]
       /\ (IsSearch /\ probe'.manager = "api" /\ stores["main"] = "none")
             => ~probe'.found]_vars

\* the API's manager cached None before the collection was built, and a
\* search it made after the build found no collection
C32_Witness ==
    /\ probe.ran /\ probe.manager = "api" /\ ~probe.found
    /\ stores["main"] = "none"
    /\ build.pc = "done" /\ disk["main"].exists

\* C34: when create_or_load fails after the documents were loaded, while the
\* new store is created, the collection persisted before under that name is
\* unchanged on disk.
C34_FailedBuildKeepsOldCollection ==
    (build.pc = "failed" /\ build.error = BuildError) => disk["main"] = build.before

----------------------------------------------------------------------------
(* When a conversation is created *)

\* C35: process_query creates a conversation only when no conversation_id is
\* given or the given id does not exist for the user; in particular a failed
\* metadata lookup of an existing conversation creates none and the call
\* does not report is_new_conversation=true.
C35_CreatesOnlyWhenUnknown ==
    [][(IsCall /\ result'.returned /\ call'.conversation_id # NoId /\ call'.existed)
       => /\ ~result'.is_new_conversation
          /\ Existing(store') = Existing(store)
          /\ \A k \in Existing(store) :
                store'[k[1]][k[2]].created_at = store[k[1]][k[2]].created_at]_vars

----------------------------------------------------------------------------
(* The shape of a stored message list *)

\* the roles alternate, the first one being user
Alternates(messages) ==
    \A i \in 1..Len(messages) :
        messages[i].role = (IF i % 2 = 1 THEN "user" ELSE "assistant")

\* C36: the message list of every stored conversation has even length and
\* alternates user, assistant, user, assistant, ..., also after the cap has
\* evicted messages; so the window of the last ContextMaxMessages messages,
\* when it is not empty, starts with a user message.
C36_EvenAlternating ==
    \A u \in Users, c \in ConvIds :
        LET messages == store[u][c].messages
            window == LastN(messages, ContextMaxMessages)
        IN /\ Len(messages) % 2 = 0
           /\ Alternates(messages)
           /\ window # <<>> => window[1].role = "user"

\* the cap evicted a turn of a conversation whose history was read: the list
\* is full and the window given to the provider started with a user message
C36_Witness ==
    /\ result.returned /\ result.save_success /\ ~result.is_new_conversation
    /\ result.conversation_id # NoId
    /\ Len(appended[result.user_id][result.conversation_id]) * 2
         > max_messages_per_conversation
    /\ Len(store[result.user_id][result.conversation_id].messages)
         = max_messages_per_conversation
    /\ store[result.user_id][result.conversation_id].messages[1].role = "user"
    /\ llmCall.invoked /\ Len(llmCall.contents) >= ContextMaxMessages
    /\ llmCall.contents[1].role = "user"

----------------------------------------------------------------------------
(* What one call appends *)

\* role and content of every message of a list
Plain(messages) == [i \in 1..Len(messages) |-> FormatForLLM(messages[i])]

\* C37: a process_query call that returns success=false appended no message
\* to any conversation; one that returns success=true after a successful
\* append added exactly one (user, assistant) pair, to the conversation whose
\* id it returns and to no other, and the assistant message holds the content
\* it returns.
C37_OnePairOrNothing ==
    [][(IsCall /\ result'.returned)
       => /\ ~result'.success => store' = store
          /\ Appended
             => /\ Plain(StoredAfter)
                     = LastN(Plain(StoredBefore)
                             \o <<[role |-> "user", content |-> call'.message]>>
                             \o <<[role |-> "assistant", content |-> result'.content]>>,
                             max_messages_per_conversation)
                /\ StoredAfter[Len(StoredAfter)].content = result'.content
                /\ \A u \in Users, c \in ConvIds :
                      <<u, c>> # <<result'.user_id, result'.conversation_id>>
                      => store'[u][c] = store[u][c]]_vars

\* a call appended its pair to one conversation while another one, with a
\* turn of its own, was stored
C37_Witness ==
    /\ result.returned /\ result.success /\ result.save_success
    /\ LET messages == store[result.user_id][result.conversation_id].messages
       IN /\ Len(messages) = 2
          /\ messages[2].content = result.content
    /\ \E c \in ConvIds \ {result.conversation_id} :
          /\ store[result.user_id][c].exists
          /\ Len(store[result.user_id][c].messages) = 2

----------------------------------------------------------------------------
(* The history is read before the turn is persisted *)

\* C38: within one process_query call the history is read before the turn is
\* persisted.  What the provider receives is taken from the messages stored
\* before the call, a run of the most recent of them and never more than
\* there were, so it holds neither the current message nor its response; it
\* is empty when the call created the conversation.
C38_HistoryReadBeforeAppend ==
    [][ProviderCalled
       => /\ \E k \in 0..Len(StoredBefore) :
                llmCall'.contents = AsRequest(LastN(StoredBefore, k))
          /\ Len(llmCall'.contents) <= Len(StoredBefore)
          /\ result'.is_new_conversation => llmCall'.contents = <<>>]_vars

\* a call created its conversation under an id that had held turns, reached
\* the provider with an empty history and then stored its turn
C38_Witness ==
    /\ result.returned /\ result.is_new_conversation /\ result.save_success
    /\ llmCall.invoked /\ llmCall.contents = <<>>
    /\ Len(okCalls[result.user_id][result.conversation_id]) > 1
    /\ Len(store[result.user_id][result.conversation_id].messages) = 2

----------------------------------------------------------------------------
(* The fields a template tool sets itself *)

\* C39: in every result a template tool returns after it parsed the model
\* output (the keys of the parsed object are in the result), the success
\* field is the one the tool set, true, whatever keys the object holds.
C39_ToolFieldsWin ==
    (tool.result.returned /\ tool.result.payload # Absent) => tool.result.success

----------------------------------------------------------------------------
(* The getters only read *)

\* a getter of the memory manager was called
IsRead == read'.calls = read.calls + 1

\* C31: get_conversation_history and get_conversation_metadata are read-only.
\* A call of either, with any arguments (an empty user id included) and
\* whether it finds the conversation, finds nothing or fails, leaves every
\* stored conversation as it was: messages, message_count, title, updated_at.
C31_GettersReadOnly ==
    [][IsRead
       => \A u \in CallerIds, c \in ConvIds :
             /\ store'[u][c].messages = store[u][c].messages
             /\ store'[u][c].message_count = store[u][c].message_count
             /\ store'[u][c].title = store[u][c].title
             /\ store'[u][c].updated_at = store[u][c].updated_at]_vars

\* a history read returned the two turns of a stored conversation, the
\* second one appended by a process_query call
C31_Witness ==
    /\ read.calls = 1 /\ read.method = "get_conversation_history"
    /\ read.found /\ Len(read.messages) = 4
    /\ result.returned /\ result.save_success
    /\ read.user_id = result.user_id /\ read.conversation_id = result.conversation_id
    /\ Len(store[read.user_id][read.conversation_id].messages) = 4

----------------------------------------------------------------------------
(* Whose conversation a call reads *)

\* the messages stored for the caller under the conversation the call used
OwnMessages ==
    IF result'.is_new_conversation THEN <<>>
    ELSE GetDoc(store, call'.user_id, result'.conversation_id).messages

\* C33: for every process_query(user_id=u, conversation_id=c), u being any
\* string, the empty one included, the conversation that is resolved and the
\* history passed to the generation provider belong to u: a conversation that
\* is reused is stored under u, and the history is made of messages stored
\* under u.
C33_OwnConversationOnly ==
    [][(IsCall /\ result'.returned /\ result'.success)
       => /\ ~result'.is_new_conversation
             => GetDoc(store, call'.user_id, result'.conversation_id).exists
          /\ llmCall'.invoked
             => \E k \in 0..Len(OwnMessages) :
                   llmCall'.contents = AsRequest(LastN(OwnMessages, k))]_vars

====

